---- MODULE Spec2Model ----
(***************************************************************************)
(* A model of writepad's markdown engine: the inline and block parsers of  *)
(* parser.ts, the serializer and the state reconciler of shared.ts, the    *)
(* Editor of editor.ts and the CodeMirror decoration planners             *)
(* (rich-styling-plugin.ts, table-widget.ts, code-widget.ts, the task list *)
(* widget and hybrid-editor.ts).                                           *)
(*                                                                         *)
(* A JavaScript string is a sequence of one-character strings, indexed     *)
(* from 0 through At, so that every index computation of the source reads  *)
(* as it does there.                                                       *)
(***************************************************************************)
EXTENDS Integers, Sequences, FiniteSets, TLC

VARIABLES
    value,        \* the string last assigned to Editor.value
    state,        \* Editor._state: the block list
    prev,         \* the block list before the last operation
    origin,       \* origin[j]: index in prev of the object state[j], 0 when fresh
    op,           \* the last operation of the Editor and its arguments
    out,          \* the string last read from Editor.value
    doc,          \* CodeMirror: the index of the open document
    cursor,       \* CodeMirror: state.selection.ranges[0]
    wysiwygMode,  \* CodeMirror: the WYSIWYG switch of the editor
    decorations,  \* RichStylingPlugin.decorations
    tableField,   \* tableWidgetField
    codeField,    \* codeWidgetField
    taskField,    \* taskWidgetField
    blockField,   \* HybridEditor's block renderer field
    taskLineField, \* taskLineDecorationField
    tr,           \* CodeMirror: what the last transaction changed
    element,      \* DOM: the children of editor.element, one per block
    caret,        \* DOM: the [block, offset] last given to setOffset
    selection,    \* DOM: the position the document selection holds
    offsetRead,   \* DOM: the offset last read through getOffset
    taskDoc,      \* tasks: the text of the CodeMirror document
    taskLists,    \* tasks: the ranges of its BulletList nodes that hold tasks
    click,        \* tasks: the last click on a checkbox, the text before it
    files,        \* files: the content of every file on disk
    currentFile,  \* files: the handle of the open file, 0 for null
    editorContent, \* files: the content of the editor as the page holds it
    originalContent, \* files: the content the page takes as saved
    isDirty,      \* files: the dirty flag of the page
    saving,       \* files: the saveFile call in flight
    opening,      \* files: the openFile call in flight
    scan,         \* parseInline: its state object, one turn of the loop at a time
    blockGen,     \* parseBlock: a generator, one turn of its while loop at a time
    loop,         \* getNewState: the locals of its while loop, one turn at a time
    view,         \* Editor: the children of its element and the blocks they render
    wasm,         \* parseMarkdownWasm: the loaded module and one generator
    simple,       \* SimpleEditor: its fields and what it rendered
    cmd           \* wysiwygCommands: the view they act on and what they did

editorVars == <<value, state, prev, origin, op, out>>
cmVars == <<doc, cursor, wysiwygMode, decorations, tableField, codeField,
            taskField, blockField, taskLineField, tr>>
domVars == <<element, caret, selection, offsetRead>>
taskVars == <<taskDoc, taskLists, click>>
fileVars == <<files, currentFile, editorContent, originalContent, isDirty,
              saving, opening>>
scanVars == <<scan>>
loopVars == <<blockGen, loop>>
pageVars == <<view, wasm, simple, cmd>>
vars == <<value, state, prev, origin, op, out, doc, cursor, wysiwygMode,
          decorations, tableField, codeField, taskField, blockField,
          taskLineField, tr, element, caret, selection, offsetRead,
          taskDoc, taskLists, click, files, currentFile, editorContent,
          originalContent, isDirty, saving, opening, scan, blockGen,
          loop, view, wasm, simple, cmd>>

----------------------------------------------------------------------------
(* JavaScript strings and arrays                                           *)

Min(a, b) == IF a < b THEN a ELSE b
Max(a, b) == IF a > b THEN a ELSE b

\* s[i], 0-based; "undefined" outside the string
At(s, i) == IF i >= 0 /\ i < Len(s) THEN s[i + 1] ELSE "undefined"

\* s.slice(a, b) and s.substring(a, b) for 0 <= a: both clamp b to the length
\* and give "" when b <= a (slice) -- substring would swap, which no call
\* of the source relies on except tryLink's url, which uses slice.
Slice(s, a, b) == SubSeq(s, Max(a, 0) + 1, Min(b, Len(s)))

SliceFrom(s, a) == SubSeq(s, Max(a, 0) + 1, Len(s))

\* The backquote character, which a TLA+ string literal cannot hold
Backtick == "BACKTICK"

\* /\s/ over the characters of the model
WhitespaceChars == {" ", "\t", "\n", "\r"}

WHITESPACE(c) == c \in WhitespaceChars

\* line terminators, which "." of a JavaScript regular expression skips
LineTerminators == {"\n", "\r"}

RECURSIVE Flat(_)
Flat(ss) == IF ss = <<>> THEN <<>> ELSE Head(ss) \o Flat(Tail(ss))

RECURSIVE Join(_, _)
Join(ss, sep) ==
    IF ss = <<>> THEN <<>>
    ELSE IF Len(ss) = 1 THEN ss[1]
    ELSE ss[1] \o sep \o Join(Tail(ss), sep)

\* s.split('\n'): always at least one piece
RECURSIVE SplitFrom(_, _, _)
SplitFrom(s, i, cur) ==
    IF i > Len(s) THEN <<cur>>
    ELSE IF s[i] = "\n" THEN <<cur>> \o SplitFrom(s, i + 1, <<>>)
    ELSE SplitFrom(s, i + 1, Append(cur, s[i]))

Split(s) == SplitFrom(s, 1, <<>>)

\* s.includes(c)
Includes(s, c) == \E i \in 1..Len(s) : s[i] = c

\* s.trim() is empty
TrimIsEmpty(s) == \A i \in 1..Len(s) : WHITESPACE(s[i])

----------------------------------------------------------------------------
(* StateNode: a content entry is a literal string or a node                *)

Str(s) == [type |-> "text", text |-> s, content |-> <<>>]
Node(t, c) == [type |-> t, text |-> <<>>, content |-> c]
IsStr(item) == item.type = "text"

Block(t, c, n) == [type |-> t, content |-> c, length |-> n]

----------------------------------------------------------------------------
(* parser.ts: the inline parser                                            *)

RECURSIVE parseInline(_)

\* what a recogniser returns: whether it pushed a token, and the new index
NoToken == [ok |-> FALSE, token |-> Str(<<>>), next |-> 0]
Token(t, n) == [ok |-> TRUE, token |-> t, next |-> n]

RECURSIVE findCloseFrom(_, _, _)
findCloseFrom(string, n, match) ==
    IF n >= Len(string) THEN -1
    ELSE IF Slice(string, n, n + Len(match)) = match
            /\ ~WHITESPACE(At(string, n - 1))
         THEN n
    ELSE findCloseFrom(string, n + 1, match)

findCloseIndex(string, index, match) ==
    findCloseFrom(string, index + Len(match), match)

RECURSIVE findCloseIndexSimple(_, _, _)
findCloseIndexSimple(string, start, match) ==
    IF start >= Len(string) THEN -1
    ELSE IF At(string, start) = match THEN start
    ELSE findCloseIndexSimple(string, start + 1, match)

Sym(m) == [open |-> m, close |-> m]
NoChars == [open |-> <<>>, close |-> <<>>]

RECURSIVE matchChars(_, _, _)
matchChars(CHARS, string, index) ==
    IF CHARS = <<>> THEN NoChars
    ELSE IF Slice(string, index, index + Len(Head(CHARS).open)) = Head(CHARS).open
         THEN Head(CHARS)
    ELSE matchChars(Tail(CHARS), string, index)

\* the content of a token: parsed in turn when the recogniser is rich
createContent(richContent, inner) ==
    IF richContent THEN parseInline(inner) ELSE <<Str(inner)>>

\* the push of the token and the move of the index past the closing mark
createToken(char, type, richContent, string, index, closeIndex) ==
    Token(Node(type,
               <<Str(char.open)>>
                   \o createContent(richContent,
                                    Slice(string, index + Len(char.open),
                                          closeIndex))
                   \o <<Str(char.close)>>),
          closeIndex + Len(char.close))

\* what follows the search of the closing mark
createClosed(char, type, richContent, contentRequired, string, index, closeIndex) ==
    IF closeIndex = -1 THEN NoToken
    ELSE IF contentRequired /\ closeIndex = index + Len(char.open) THEN NoToken
    ELSE createToken(char, type, richContent, string, index, closeIndex)

\* what follows the match of the opening mark
createOpened(char, type, richContent, contentRequired, string, index) ==
    IF char = NoChars THEN NoToken
    ELSE IF \/ At(string, index + Len(char.open)) = "undefined"
            \/ WHITESPACE(At(string, index + Len(char.open)))
         THEN NoToken
    ELSE createClosed(char, type, richContent, contentRequired, string, index,
                      findCloseIndex(string, index, char.close))

create(CHARS, type, richContent, contentRequired, string, index) ==
    createOpened(matchChars(CHARS, string, index), type, richContent,
                 contentRequired, string, index)

tryLink(string, index) ==
    IF At(string, index) # "[" THEN NoToken
    ELSE
    LET closeBracketIndex == findCloseIndexSimple(string, index, "]") IN
    IF closeBracketIndex = -1 THEN NoToken
    ELSE IF index = closeBracketIndex - 1 THEN NoToken
    ELSE
    LET text == Slice(string, index + 1, closeBracketIndex) IN
    IF Includes(text, "[") THEN NoToken
    ELSE IF At(string, closeBracketIndex + 1) # "(" THEN NoToken
    ELSE
    LET closeParIndex == findCloseIndexSimple(string, index, ")") IN
    IF closeParIndex = -1 THEN NoToken
    ELSE
    LET url == Slice(string, closeBracketIndex + 2, closeParIndex) IN
    IF Includes(url, "(") THEN NoToken
    ELSE IF closeBracketIndex = closeParIndex - 2 THEN NoToken
    ELSE Token(Node("link", <<Str(<<"[">>), Str(text), Str(<<"]">>),
                              Str(<<"(">>), Str(url), Str(<<")">>)>>),
               closeParIndex + 1)

tryEmphasis(string, index) ==
    create(<<Sym(<<"*">>), Sym(<<"_">>)>>, "em", TRUE, FALSE, string, index)
tryStrong(string, index) ==
    create(<<Sym(<<"*", "*">>), Sym(<<"_", "_">>)>>, "strong", TRUE, FALSE, string, index)
tryUnderline(string, index) ==
    create(<<Sym(<<"~">>)>>, "underline", TRUE, FALSE, string, index)
tryStrikethrough(string, index) ==
    create(<<Sym(<<"~", "~">>)>>, "strikethrough", TRUE, FALSE, string, index)
tryMark(string, index) ==
    create(<<Sym(<<":", ":">>)>>, "mark", TRUE, FALSE, string, index)
tryReference(string, index) ==
    create(<<[open |-> <<"[", "[">>, close |-> <<"]", "]">>]>>, "reference",
           TRUE, FALSE, string, index)
tryCode(string, index) ==
    create(<<Sym(<<Backtick>>)>>, "code", FALSE, FALSE, string, index)
tryFile(string, index) ==
    create(<<[open |-> <<"[", "f", "i", "l", "e", ":">>, close |-> <<"]">>]>>,
           "file", FALSE, FALSE, string, index)
tryImage(string, index) ==
    create(<<[open |-> <<"[", "i", "m", "a", "g", "e", ":">>, close |-> <<"]">>]>>,
           "image", FALSE, FALSE, string, index)
tryTag(string, index) ==
    create(<<Sym(<<"#">>)>>, "tag", FALSE, TRUE, string, index)

\* the chain with emphasis tried before strong
emphasisFirst ==
    <<"link", "em", "strong", "strikethrough", "underline", "mark",
      "reference", "code", "file", "image", "tag">>

\* the recognisers of the if-else chain of parseInline, in its order
inlineOrder == <<"link", "strong", "em", "strikethrough", "underline", "mark",
                 "reference", "code", "file", "image", "tag">>

tryInline(name, string, index) ==
    CASE name = "link" -> tryLink(string, index)
      [] name = "strong" -> tryStrong(string, index)
      [] name = "em" -> tryEmphasis(string, index)
      [] name = "strikethrough" -> tryStrikethrough(string, index)
      [] name = "underline" -> tryUnderline(string, index)
      [] name = "mark" -> tryMark(string, index)
      [] name = "reference" -> tryReference(string, index)
      [] name = "code" -> tryCode(string, index)
      [] name = "file" -> tryFile(string, index)
      [] name = "image" -> tryImage(string, index)
      [] name = "tag" -> tryTag(string, index)

RECURSIVE firstInline(_, _, _)

\* one link of the if-else chain: the next recogniser is tried when this one
\* returned false
elseInline(r, names, string, index) ==
    IF r.ok THEN r ELSE firstInline(Tail(names), string, index)

firstInline(names, string, index) ==
    IF names = <<>> THEN NoToken
    ELSE elseInline(tryInline(Head(names), string, index), names, string,
                    index)

\* addText: the character joins the plain-text run under construction
addText(tokens, c) ==
    IF tokens # <<>> /\ IsStr(tokens[Len(tokens)])
    THEN [tokens EXCEPT ![Len(tokens)] = Str(@.text \o <<c>>)]
    ELSE Append(tokens, Str(<<c>>))

RECURSIVE scanInline(_, _, _)

\* one turn of the while loop, r being what the chain returned
scanStep(r, text, index, tokens) ==
    IF r.ok THEN scanInline(text, r.next, Append(tokens, r.token))
    ELSE scanInline(text, index + 1, addText(tokens, At(text, index)))

scanInline(text, index, tokens) ==
    IF index >= Len(text) THEN tokens
    ELSE scanStep(firstInline(inlineOrder, text, index), text, index, tokens)

parseInline(text) == scanInline(text, 0, <<>>)

----------------------------------------------------------------------------
(* parser.ts: the block parser                                             *)

\* a regular expression's result: match.slice(1), or no match
NoMatch == [ok |-> FALSE, matches |-> <<>>]
Match(ms) == [ok |-> TRUE, matches |-> ms]

\* the length of the longest prefix of line, from index i, made of characters of cs
RECURSIVE RunLength(_, _, _)
RunLength(line, i, cs) ==
    IF At(line, i) \in cs THEN 1 + RunLength(line, i + 1, cs) ELSE 0

Digits == {"0", "1", "2", "3", "4", "5", "6", "7", "8", "9"}

\* /^(#{1,6}) /
HEADING(line) ==
    LET r == RunLength(line, 0, {"#"}) IN
    IF r >= 1 /\ r <= 6 /\ At(line, r) = " "
    THEN Match(<<Slice(line, 0, r)>>) ELSE NoMatch

\* /^(-{3,}|\*{3,}|_{3,})$/
HR(line) ==
    IF Len(line) >= 3 /\ \E c \in {"-", "*", "_"} : \A i \in 1..Len(line) : line[i] = c
    THEN Match(<<line>>) ELSE NoMatch

\* /^(\s*)(- \[(?: |x)\])( )/
TODO_ITEM(line) ==
    LET w == RunLength(line, 0, WhitespaceChars) IN
    IF /\ At(line, w) = "-" /\ At(line, w + 1) = " " /\ At(line, w + 2) = "["
       /\ At(line, w + 3) \in {" ", "x"}
       /\ At(line, w + 4) = "]" /\ At(line, w + 5) = " "
    THEN Match(<<Slice(line, 0, w), Slice(line, w, w + 5), <<" ">>>>) ELSE NoMatch

\* /^(\s*)(\d+)(\.) /
ORDERED_ITEM(line) ==
    LET w == RunLength(line, 0, WhitespaceChars)
        d == RunLength(line, w, Digits) IN
    IF d >= 1 /\ At(line, w + d) = "." /\ At(line, w + d + 1) = " "
    THEN Match(<<Slice(line, 0, w), Slice(line, w, w + d), <<".">>>>) ELSE NoMatch

\* /^(\s*)([*-]) /
UNORDERED_ITEM(line) ==
    LET w == RunLength(line, 0, WhitespaceChars) IN
    IF At(line, w) \in {"*", "-"} /\ At(line, w + 1) = " "
    THEN Match(<<Slice(line, 0, w), <<At(line, w)>>>>) ELSE NoMatch

\* /^(>) /
BLOCKQUOTE(line) ==
    IF At(line, 0) = ">" /\ At(line, 1) = " " THEN Match(<<<<">">>>>) ELSE NoMatch

\* /^(`{3})(.*)$/: "." matches no line terminator and "$" only the end
OPEN(line) ==
    IF /\ Slice(line, 0, 3) = <<Backtick, Backtick, Backtick>>
       /\ \A i \in 4..Len(line) : line[i] \notin LineTerminators
    THEN Match(<<Slice(line, 0, 3), SliceFrom(line, 3)>>) ELSE NoMatch

\* /^`{3,}.*$/
CLOSE(line) ==
    /\ Slice(line, 0, 3) = <<Backtick, Backtick, Backtick>>
    /\ \A i \in 4..Len(line) : line[i] \notin LineTerminators

\* the parseInline of a ParseContext: the inline parser, or with typeOnly
\* the function that wraps the string
ctxParseInline(typeOnly, string) ==
    IF typeOnly THEN <<Str(string)>> ELSE parseInline(string)

NullBlock == Block("null", <<>>, 0)

\* block.length || 1
lengthOr1(block) == IF block.length = 0 THEN 1 ELSE block.length

RECURSIVE StrAll(_)
StrAll(ms) == IF ms = <<>> THEN <<>> ELSE <<Str(Head(ms))>> \o StrAll(Tail(ms))

matchLine(m, type, line, typeOnly) ==
    IF ~m.ok THEN NullBlock
    ELSE Block(type,
               StrAll(m.matches)
                   \o ctxParseInline(typeOnly, SliceFrom(line, Len(Flat(m.matches)))),
               1)

\* lines and index are 0-based as in the source: line n is lines[n + 1]
RECURSIVE findClosingFrom(_, _)
findClosingFrom(lines, n) ==
    IF n >= Len(lines) THEN -1
    ELSE IF CLOSE(lines[n + 1]) THEN n
    ELSE findClosingFrom(lines, n + 1)

\* the search of the closing fence, started at the opening line itself
findClosingLineFromOpening(lines, index) == findClosingFrom(lines, index)

findClosingLine(lines, index) == findClosingFrom(lines, index + 1)

codeBlock(lines, index) ==
    LET match == OPEN(lines[index + 1]) IN
    IF ~match.ok THEN NullBlock
    ELSE
    LET closingLineIndex == findClosingLine(lines, index) IN
    IF closingLineIndex = -1 THEN NullBlock
    ELSE
    LET content ==
            IF index + 1 = closingLineIndex THEN <<Str(<<>>)>>
            ELSE <<Str(Join(SubSeq(lines, index + 2, closingLineIndex), <<"\n">>)),
                   Str(<<"\n">>)>>
    IN  Block("code_block",
              <<Str(match.matches[1]), Str(match.matches[2]), Str(<<"\n">>)>>
                  \o content \o <<Str(lines[closingLineIndex + 1])>>,
              closingLineIndex - index + 1)

paragraph(lines, index, typeOnly) ==
    IF TrimIsEmpty(lines[index + 1]) THEN NullBlock
    ELSE Block("paragraph", ctxParseInline(typeOnly, lines[index + 1]), 1)

\* the parsers array with the list items before the rule and the todo item
listsFirst == <<"codeBlock", "heading", "orderedList", "unorderedList",
                "horizontalRule", "todoItem", "blockquote", "paragraph">>

\* the parsers array, in its order
parsers == <<"codeBlock", "heading", "horizontalRule", "todoItem", "orderedList",
             "unorderedList", "blockquote", "paragraph">>

runParser(name, lines, index, typeOnly) ==
    CASE name = "codeBlock" -> codeBlock(lines, index)
      [] name = "heading" ->
            matchLine(HEADING(lines[index + 1]), "heading", lines[index + 1],
                      typeOnly)
      [] name = "horizontalRule" ->
            matchLine(HR(lines[index + 1]), "horizontal_rule",
                      lines[index + 1], typeOnly)
      [] name = "todoItem" ->
            matchLine(TODO_ITEM(lines[index + 1]), "todo_item",
                      lines[index + 1], typeOnly)
      [] name = "orderedList" ->
            matchLine(ORDERED_ITEM(lines[index + 1]), "ordered_list_item",
                      lines[index + 1], typeOnly)
      [] name = "unorderedList" ->
            matchLine(UNORDERED_ITEM(lines[index + 1]), "unordered_list_item",
                      lines[index + 1], typeOnly)
      [] name = "blockquote" ->
            matchLine(BLOCKQUOTE(lines[index + 1]), "blockquote",
                      lines[index + 1], typeOnly)
      [] name = "paragraph" -> paragraph(lines, index, typeOnly)

RECURSIVE firstParser(_, _, _, _)

\* the for loop over parsers: the first result that is not null wins
elseParser(result, names, lines, index, typeOnly) ==
    IF result # NullBlock THEN result
    ELSE firstParser(Tail(names), lines, index, typeOnly)

firstParser(names, lines, index, typeOnly) ==
    IF names = <<>> THEN NullBlock
    ELSE elseParser(runParser(Head(names), lines, index, typeOnly), names,
                    lines, index, typeOnly)

\* parseBlock without its fallback
orNothing(result) == result

\* the fallback of parseBlock when no parser took the line
orParagraph(result) ==
    IF result # NullBlock THEN result
    ELSE Block("paragraph", <<Str(<<>>)>>, 1)

\* one turn of the loop of parseBlock: the block yielded at line index
blockAt(lines, index, typeOnly) ==
    orParagraph(firstParser(parsers, lines, index, typeOnly))

RECURSIVE parseBlockFrom(_, _, _)

\* yield b, then go on after its lines
yieldBlock(b, lines, index, typeOnly) ==
    <<b>> \o parseBlockFrom(lines, index + lengthOr1(b), typeOnly)

parseBlockFrom(lines, index, typeOnly) ==
    IF index >= Len(lines) THEN <<>>
    ELSE yieldBlock(blockAt(lines, index, typeOnly), lines, index, typeOnly)

\* parseBlock over an array of lines: every block the generator yields
parseBlock(lines, typeOnly) == parseBlockFrom(lines, 0, typeOnly)

\* parseBlock over a string
parseBlockString(string) == parseBlock(Split(string), FALSE)

----------------------------------------------------------------------------
(* shared.ts: serializeState                                               *)

RECURSIVE serializeState(_, _)
serializeState(list, block) ==
    Join([i \in 1..Len(list) |->
             IF IsStr(list[i]) THEN list[i].text
             ELSE serializeState(list[i].content, block)],
         IF block THEN <<"\n">> ELSE <<>>)

----------------------------------------------------------------------------
(* shared.ts: getNewState                                                  *)

\* blocks.map(block => serializeState(block.content).split('\n')).flat()
RECURSIVE blockLines(_)
blockLines(blocks) ==
    IF blocks = <<>> THEN <<>>
    ELSE Split(serializeState(Head(blocks).content, FALSE)) \o blockLines(Tail(blocks))

RECURSIVE sumLengths(_)
sumLengths(blocks) ==
    IF blocks = <<>> THEN 0 ELSE lengthOr1(Head(blocks)) + sumLengths(Tail(blocks))

\* A generator of parseBlock: the array it was given and its index into it.
\* next() yields the block at the index, "undefined" once the lines are used up.
Undefined == Block("undefined", <<>>, 0)
Generator(lines) == [lines |-> lines, index |-> 0]
genValue(gen, typeOnly) ==
    IF gen.index >= Len(gen.lines) THEN Undefined
    ELSE blockAt(gen.lines, gen.index, typeOnly)
genAdvance(gen, typeOnly) ==
    IF gen.index >= Len(gen.lines) THEN gen
    ELSE [gen EXCEPT !.index = @ + lengthOr1(blockAt(gen.lines, gen.index, typeOnly))]

\* editor.state.find(...): the 1-based index of the old block that starts at
\* line oldLineIndex, 0 when there is none
RECURSIVE findOldFrom(_, _, _, _)
findOldFrom(oldState, i, n, oldLineIndex) ==
    IF i > Len(oldState) THEN 0
    ELSE IF n = oldLineIndex THEN i
    ELSE findOldFrom(oldState, i + 1, n + lengthOr1(oldState[i]), oldLineIndex)

findOld(oldState, oldLineIndex) == findOldFrom(oldState, 1, 0, oldLineIndex)

\* the for loop over editor.parser(newLines.slice(lineIndex)): the blocks it
\* pushes, until their lines number at least need
RECURSIVE parseZone(_, _, _, _)

pushZone(newBlock, lines, index, m, need) ==
    IF m + lengthOr1(newBlock) >= need THEN <<newBlock>>
    ELSE <<newBlock>>
             \o parseZone(lines, index + lengthOr1(newBlock),
                          m + lengthOr1(newBlock), need)

parseZone(lines, index, m, need) ==
    IF index >= Len(lines) THEN <<>>
    ELSE pushZone(blockAt(lines, index, FALSE), lines, index, m, need)

\* an entry of the new state: the block, and the index in the old state of
\* the object it is (0: an object made by this call)
Fresh(b) == [block |-> b, ref |-> 0]
Reused(oldState, i) == [block |-> oldState[i], ref |-> i]

RECURSIVE FreshAll(_)
FreshAll(bs) == IF bs = <<>> THEN <<>> ELSE <<Fresh(Head(bs))>> \o FreshAll(Tail(bs))

\* no old block is ever pushed
reuseNever(oldState, i, block) == FALSE

\* whether the old block found at oldLineIndex is pushed in place of the
\* pre-parsed block
reuseOld(oldState, i, block) == i # 0 /\ oldState[i].type = block.type

\* the while loop of getNewState; c holds what the loop does not change
RECURSIVE newStateLoop(_, _, _, _, _, _)

\* preparser = editor.parser(newLines.slice(lineIndex), true);
\* block = preparser.next().value; and the loop again
restartLoop(c, lineIndex, oldLineIndex, gen, newState) ==
    newStateLoop(c, lineIndex, oldLineIndex, genAdvance(gen, TRUE),
                 genValue(gen, TRUE), newState)

\* the changed zone, once its blocks are parsed and their m lines counted
zoneParsed(c, lineIndex, oldLineIndex, parsed, m, newState) ==
    restartLoop(c, lineIndex + m,
                oldLineIndex
                    + sumLengths(SubSeq(c.state, c.from + 1, c.to + 1))
                    + m - Len(c.lines),
                Generator(SliceFrom(c.newLines, lineIndex + m)),
                newState \o FreshAll(parsed))

\* parse the new text and move oldLineIndex to after the change
zone(c, lineIndex, oldLineIndex, parsed, newState) ==
    zoneParsed(c, lineIndex, oldLineIndex, parsed, sumLengths(parsed),
               newState)

\* type changed
typeChanged(c, lineIndex, oldLineIndex, newBlock, newState) ==
    restartLoop(c, lineIndex + lengthOr1(newBlock),
                oldLineIndex + lengthOr1(newBlock),
                Generator(SliceFrom(c.newLines,
                                    lineIndex + lengthOr1(newBlock))),
                Append(newState, Fresh(newBlock)))

\* the old block found at oldLineIndex is reused when its type is that of
\* the pre-parsed block
reuseOrParse(c, lineIndex, oldLineIndex, preparser, block, newState, i) ==
    IF reuseOld(c.state, i, block)
    THEN newStateLoop(c, lineIndex + lengthOr1(block),
                      oldLineIndex + lengthOr1(block),
                      genAdvance(preparser, TRUE), genValue(preparser, TRUE),
                      Append(newState, Reused(c.state, i)))
    ELSE typeChanged(c, lineIndex, oldLineIndex,
                     blockAt(SliceFrom(c.newLines, lineIndex), 0, FALSE),
                     newState)

newStateLoop(c, lineIndex, oldLineIndex, preparser, block, newState) ==
    IF block = Undefined THEN newState
    ELSE IF /\ lineIndex + lengthOr1(block) - 1 >= Len(c.textBefore)
            /\ lineIndex < Len(c.textBefore) + Len(c.lines)
    THEN zone(c, lineIndex, oldLineIndex,
              parseZone(SliceFrom(c.newLines, lineIndex), 0, 0, Len(c.lines)),
              newState)
    ELSE reuseOrParse(c, lineIndex, oldLineIndex, preparser, block, newState,
                      findOld(c.state, oldLineIndex))

\* the lines getNewState parses: those of the blocks before from, those of
\* text, those of the blocks after to (from and to are 0-based, inclusive)
newLinesOf(oldState, from, to, text) ==
    blockLines(SubSeq(oldState, 1, from)) \o Split(text)
        \o blockLines(SubSeq(oldState, to + 2, Len(oldState)))

\* what the loop of getNewState reads and does not change
loopContext(oldState, from, to, text) ==
    [state |-> oldState, from |-> from, to |-> to,
     textBefore |-> blockLines(SubSeq(oldState, 1, from)),
     lines |-> Split(text),
     newLines |-> newLinesOf(oldState, from, to, text)]

startLoop(c) == restartLoop(c, 0, 0, Generator(c.newLines), <<>>)

getNewState(oldState, from, to, text) ==
    startLoop(loopContext(oldState, from, to, text))

----------------------------------------------------------------------------
(* CodeMirror: documents and their lezer-markdown syntax trees             *)
(*                                                                         *)
(* The tree of a document is listed in pre-order, the order in which       *)
(* syntaxTree(state).iterate enters the nodes; parent is the position of   *)
(* the parent node in that list (0 for Document).  nodes is the tree under *)
(* markdown({extensions: [GFM, Table, TaskList, Strikethrough]}), base the *)
(* tree under the plain markdown() of HybridEditor.                        *)

N(name, from, to, parent) ==
    [name |-> name, from |-> from, to |-> to, parent |-> parent]

\* '# *a*'
HeadingDoc ==
    [text |-> <<"#", " ", "*", "a", "*">>,
     nodes |-> <<N("Document", 0, 5, 0), N("ATXHeading1", 0, 5, 1),
                N("HeaderMark", 0, 1, 2), N("Emphasis", 2, 5, 2),
                N("EmphasisMark", 2, 3, 4), N("EmphasisMark", 4, 5, 4)>>,
     base |-> <<N("Document", 0, 5, 0), N("ATXHeading1", 0, 5, 1),
               N("HeaderMark", 0, 1, 2), N("Emphasis", 2, 5, 2),
               N("EmphasisMark", 2, 3, 4), N("EmphasisMark", 4, 5, 4)>>]

\* '**a** ~~b~~'
StrongDoc ==
    [text |-> <<"*", "*", "a", "*", "*", " ", "~", "~", "b", "~", "~">>,
     nodes |-> <<N("Document", 0, 11, 0), N("Paragraph", 0, 11, 1),
                N("StrongEmphasis", 0, 5, 2), N("EmphasisMark", 0, 2, 3),
                N("EmphasisMark", 3, 5, 3), N("Strikethrough", 6, 11, 2),
                N("StrikethroughMark", 6, 8, 6),
                N("StrikethroughMark", 9, 11, 6)>>,
     base |-> <<N("Document", 0, 11, 0), N("Paragraph", 0, 11, 1),
               N("StrongEmphasis", 0, 5, 2), N("EmphasisMark", 0, 2, 3),
               N("EmphasisMark", 3, 5, 3)>>]

\* '(backquote)a(backquote) [b](c)'
LinkDoc ==
    [text |-> <<Backtick, "a", Backtick, " ", "[", "b", "]", "(", "c", ")">>,
     nodes |-> <<N("Document", 0, 10, 0), N("Paragraph", 0, 10, 1),
                N("InlineCode", 0, 3, 2), N("CodeMark", 0, 1, 3),
                N("CodeMark", 2, 3, 3), N("Link", 4, 10, 2),
                N("LinkMark", 4, 5, 6), N("LinkMark", 6, 7, 6),
                N("LinkMark", 7, 8, 6), N("URL", 8, 9, 6),
                N("LinkMark", 9, 10, 6)>>,
     base |-> <<N("Document", 0, 10, 0), N("Paragraph", 0, 10, 1),
               N("InlineCode", 0, 3, 2), N("CodeMark", 0, 1, 3),
               N("CodeMark", 2, 3, 3), N("Link", 4, 10, 2),
               N("LinkMark", 4, 5, 6), N("LinkMark", 6, 7, 6),
               N("LinkMark", 7, 8, 6), N("URL", 8, 9, 6),
               N("LinkMark", 9, 10, 6)>>]

\* '|a|\n|-|\n\n(backquote)(backquote)(backquote)\nx\n(backquote)(backquote)(backquote)'
TableDoc ==
    [text |-> <<"|", "a", "|", "\n", "|", "-", "|", "\n", "\n", Backtick,
              Backtick, Backtick, "\n", "x", "\n", Backtick, Backtick,
              Backtick>>,
     nodes |-> <<N("Document", 0, 18, 0), N("Table", 0, 7, 1),
                N("TableHeader", 0, 3, 2), N("TableDelimiter", 0, 1, 3),
                N("TableCell", 1, 2, 3), N("TableDelimiter", 2, 3, 3),
                N("TableDelimiter", 4, 7, 2), N("FencedCode", 9, 18, 1),
                N("CodeMark", 9, 12, 8), N("CodeText", 13, 14, 8),
                N("CodeMark", 15, 18, 8)>>,
     base |-> <<N("Document", 0, 18, 0), N("Paragraph", 0, 7, 1),
               N("FencedCode", 9, 18, 1), N("CodeMark", 9, 12, 3),
               N("CodeText", 13, 14, 3), N("CodeMark", 15, 18, 3)>>]

\* '> a\n> (backquote)(backquote)(backquote)\n> x\n> (backquote)(backquote)(backquote)'
QuoteDoc ==
    [text |-> <<">", " ", "a", "\n", ">", " ", Backtick, Backtick, Backtick,
              "\n", ">", " ", "x", "\n", ">", " ", Backtick, Backtick,
              Backtick>>,
     nodes |-> <<N("Document", 0, 19, 0), N("Blockquote", 0, 19, 1),
                N("QuoteMark", 0, 1, 2), N("Paragraph", 2, 3, 2),
                N("QuoteMark", 4, 5, 2), N("FencedCode", 6, 19, 2),
                N("CodeMark", 6, 9, 6), N("QuoteMark", 10, 11, 6),
                N("CodeText", 12, 13, 6), N("QuoteMark", 14, 15, 6),
                N("CodeMark", 16, 19, 6)>>,
     base |-> <<N("Document", 0, 19, 0), N("Blockquote", 0, 19, 1),
               N("QuoteMark", 0, 1, 2), N("Paragraph", 2, 3, 2),
               N("QuoteMark", 4, 5, 2), N("FencedCode", 6, 19, 2),
               N("CodeMark", 6, 9, 6), N("QuoteMark", 10, 11, 6),
               N("CodeText", 12, 13, 6), N("QuoteMark", 14, 15, 6),
               N("CodeMark", 16, 19, 6)>>]

\* '- [ ] a\n  - [x] b\n- c'
TaskDoc ==
    [text |-> <<"-", " ", "[", " ", "]", " ", "a", "\n", " ", " ", "-", " ",
              "[", "x", "]", " ", "b", "\n", "-", " ", "c">>,
     nodes |-> <<N("Document", 0, 21, 0), N("BulletList", 0, 21, 1),
                N("ListItem", 0, 17, 2), N("ListMark", 0, 1, 3),
                N("Task", 2, 7, 3), N("TaskMarker", 2, 5, 5),
                N("BulletList", 10, 17, 3), N("ListItem", 10, 17, 7),
                N("ListMark", 10, 11, 8), N("Task", 12, 17, 8),
                N("TaskMarker", 12, 15, 10), N("ListItem", 18, 21, 2),
                N("ListMark", 18, 19, 12), N("Paragraph", 20, 21, 12)>>,
     base |-> <<N("Document", 0, 21, 0), N("BulletList", 0, 21, 1),
               N("ListItem", 0, 17, 2), N("ListMark", 0, 1, 3),
               N("Paragraph", 2, 7, 3), N("BulletList", 10, 17, 3),
               N("ListItem", 10, 17, 6), N("ListMark", 10, 11, 7),
               N("Paragraph", 12, 17, 7), N("ListItem", 18, 21, 2),
               N("ListMark", 18, 19, 10), N("Paragraph", 20, 21, 10)>>]

\* '1. a\n- b'
ListDoc ==
    [text |-> <<"1", ".", " ", "a", "\n", "-", " ", "b">>,
     nodes |-> <<N("Document", 0, 8, 0), N("OrderedList", 0, 4, 1),
                N("ListItem", 0, 4, 2), N("ListMark", 0, 2, 3),
                N("Paragraph", 3, 4, 3), N("BulletList", 5, 8, 1),
                N("ListItem", 5, 8, 6), N("ListMark", 5, 6, 7),
                N("Paragraph", 7, 8, 7)>>,
     base |-> <<N("Document", 0, 8, 0), N("OrderedList", 0, 4, 1),
               N("ListItem", 0, 4, 2), N("ListMark", 0, 2, 3),
               N("Paragraph", 3, 4, 3), N("BulletList", 5, 8, 1),
               N("ListItem", 5, 8, 6), N("ListMark", 5, 6, 7),
               N("Paragraph", 7, 8, 7)>>]

\* '> - a'
QuoteListDoc ==
    [text |-> <<">", " ", "-", " ", "a">>,
     nodes |-> <<N("Document", 0, 5, 0), N("Blockquote", 0, 5, 1),
                N("QuoteMark", 0, 1, 2), N("BulletList", 2, 5, 2),
                N("ListItem", 2, 5, 4), N("ListMark", 2, 3, 5),
                N("Paragraph", 4, 5, 5)>>,
     base |-> <<N("Document", 0, 5, 0), N("Blockquote", 0, 5, 1),
               N("QuoteMark", 0, 1, 2), N("BulletList", 2, 5, 2),
               N("ListItem", 2, 5, 4), N("ListMark", 2, 3, 5),
               N("Paragraph", 4, 5, 5)>>]

Docs == <<HeadingDoc, StrongDoc, LinkDoc, TableDoc, QuoteDoc, TaskDoc,
          ListDoc, QuoteListDoc>>

\* state.doc.sliceString(from, to)
sliceString(d, from, to) == Slice(Docs[d].text, from, to)

\* ranges of pushed decorations
Range(kind, class, from, to) ==
    [kind |-> kind, class |-> class, from |-> from, to |-> to]

\* the cursor lies strictly inside the node
cursorStrictlyInNode(cur, node) == cur.from > node.from /\ cur.to < node.to

\* cursor.from >= node.from && cursor.to <= node.to
cursorInNode(cur, node) == cur.from >= node.from /\ cur.to <= node.to

RECURSIVE Ancestors(_, _)
Ancestors(nodes, i) ==
    IF nodes[i].parent = 0 THEN {}
    ELSE {nodes[i].parent} \cup Ancestors(nodes, nodes[i].parent)

\* iterate({enter}): a node is entered unless enter returned false at one of
\* its ancestors; skipped is the set of nodes where enter returns false
Entered(nodes, skipped) ==
    {i \in 1..Len(nodes) : Ancestors(nodes, i) \cap skipped = {}}

\* the ranges pushed while iterating, the last pushed first
RECURSIVE PushedLastFirst(_, _, _, _)
PushedLastFirst(nodes, entered, pushAt, i) ==
    IF i > Len(nodes) THEN <<>>
    ELSE PushedLastFirst(nodes, entered, pushAt, i + 1)
         \o (IF i \in entered THEN pushAt[i] ELSE <<>>)

\* the ranges pushed while iterating, in the order of the pushes
RECURSIVE Pushed(_, _, _, _)
Pushed(nodes, entered, pushAt, i) ==
    IF i > Len(nodes) THEN <<>>
    ELSE (IF i \in entered THEN pushAt[i] ELSE <<>>)
         \o Pushed(nodes, entered, pushAt, i + 1)

\* node.matchContext(context)
matchContext(nodes, i, context) ==
    LET up1 == nodes[i].parent
        up2 == IF up1 = 0 THEN 0 ELSE nodes[up1].parent
    IN  /\ up1 # 0 /\ up2 # 0
        /\ nodes[up1].name = context[2]
        /\ nodes[up2].name = context[1]

----------------------------------------------------------------------------
(* RichStylingPlugin                                                       *)

richElements ==
    {"InlineCode", "Emphasis", "StrongEmphasis", "FencedCode", "Link",
     "ATXHeading1", "ATXHeading2", "ATXHeading3", "ATXHeading4",
     "ATXHeading5", "ATXHeading6", "Strikethrough", "HorizontalRule",
     "Blockquote"}

decorationHidden == "wp-markup-hidden"
decorationBullet == "wp-list-bullet"
decorationCode == "wp-code-block"
decorationHeading == "wp-heading"
decorationEmphasis == "wp-emphasis"
decorationStrong == "wp-strong"
decorationInlineCode == "wp-inline-code"
decorationLink == "wp-link"
decorationStrikethrough == "wp-strikethrough"
decorationBlockquote == "wp-blockquote"
decorationHorizontalRule == "wp-horizontal-rule"

Headings ==
    {"ATXHeading1", "ATXHeading2", "ATXHeading3", "ATXHeading4",
     "ATXHeading5", "ATXHeading6"}

\* the switch of enter: the class pushed for a node, "" when none is
processClass(nodes, i, cur, wysiwyg) ==
    LET node == nodes[i]
        shouldHideSyntax == wysiwyg \/ ~cursorInNode(cur, node)
        when(c) == IF shouldHideSyntax THEN c ELSE ""
    IN  CASE node.name = "FencedCode" -> decorationCode
          [] node.name \in Headings -> when(decorationHeading)
          [] node.name = "Emphasis" -> when(decorationEmphasis)
          [] node.name = "StrongEmphasis" -> when(decorationStrong)
          [] node.name = "InlineCode" -> when(decorationInlineCode)
          [] node.name \in {"Link", "Autolink"} -> when(decorationLink)
          [] node.name = "Strikethrough" -> when(decorationStrikethrough)
          [] node.name = "Blockquote" -> when(decorationBlockquote)
          [] node.name = "HorizontalRule" -> decorationHorizontalRule
          [] node.name = "ListMark" ->
                IF /\ matchContext(nodes, i, <<"BulletList", "ListItem">>)
                   /\ (wysiwyg \/ (cur.from # node.from
                                   /\ cur.from # node.from + 1))
                THEN decorationBullet ELSE ""
          [] node.name = "HeaderMark" -> when(decorationHidden)
          [] node.name \in {"EmphasisMark", "CodeMark", "LinkMark",
                            "QuoteMark", "TaskMarker", "TableDelimiter"} ->
                when(decorationHidden)
          [] node.name = "URL" -> when(decorationHidden)
          [] OTHER -> ""

\* RichStylingPlugin.process over the whole document
process(d, cur, wysiwyg) ==
    LET nodes == Docs[d].nodes
        skipped == {i \in 1..Len(nodes) :
                        /\ nodes[i].name \in richElements
                        /\ cursorInNode(cur, nodes[i])
                        /\ ~wysiwyg}
        pushAt == [i \in 1..Len(nodes) |->
                     LET c == processClass(nodes, i, cur, wysiwyg)
                     IN  IF c = "" THEN <<>>
                         ELSE <<Range("mark", c, nodes[i].from,
                                      nodes[i].to)>>]
    IN  Pushed(nodes, Entered(nodes, skipped), pushAt, 1)

----------------------------------------------------------------------------
(* Block widgets                                                           *)

\* /^\s*-\s*\[([ xX])\]/m.test(text)
hasTask(text) ==
    \E p \in 0..Len(text) :
        /\ p = 0 \/ At(text, p - 1) \in LineTerminators
        /\ LET a == p + RunLength(text, p, WhitespaceChars)
               b == a + 1 + RunLength(text, a + 1, WhitespaceChars)
           IN  /\ At(text, a) = "-"
               /\ At(text, b) = "["
               /\ At(text, b + 1) \in {" ", "x", "X"}
               /\ At(text, b + 2) = "]"

\* the shared shape of the block planners: a node that is wanted and holds
\* the cursor returns false, a wanted node without the cursor is replaced
replaceNodes(nodes, wanted, cur, widget) ==
    LET skipped == {i \in wanted : cursorInNode(cur, nodes[i])}
        pushAt == [i \in 1..Len(nodes) |->
                     IF i \in wanted /\ ~cursorInNode(cur, nodes[i])
                     THEN <<Range("replace", widget, nodes[i].from,
                                  nodes[i].to)>>
                     ELSE <<>>]
    IN  Pushed(nodes, Entered(nodes, skipped), pushAt, 1)

WithName(nodes, names) == {i \in 1..Len(nodes) : nodes[i].name \in names}

replaceTableBlocks(d, cur) ==
    replaceNodes(Docs[d].nodes, WithName(Docs[d].nodes, {"Table"}), cur,
                 "TableWidget")

replaceCodeBlocks(d, cur) ==
    replaceNodes(Docs[d].nodes, WithName(Docs[d].nodes, {"FencedCode"}), cur,
                 "CodeBlockWidget")

TaskLists(d) ==
    {i \in WithName(Docs[d].nodes, {"BulletList"}) :
        hasTask(sliceString(d, Docs[d].nodes[i].from, Docs[d].nodes[i].to))}

replaceTaskListBlocks(d, cur) ==
    replaceNodes(Docs[d].nodes, TaskLists(d), cur, "TaskListWidget")

replaceBlocks(d, cur) ==
    replaceNodes(Docs[d].base,
                 WithName(Docs[d].base, {"Table", "Blockquote", "FencedCode"}),
                 cur, "WasmRenderWidget")

----------------------------------------------------------------------------
(* Task line decorations                                                   *)

\* doc.lastIndexOf(c, from): the last index at or before from, -1 when none
RECURSIVE lastIndexOf(_, _, _)
lastIndexOf(text, c, from) ==
    IF from < 0 THEN -1
    ELSE IF At(text, from) = c THEN from
    ELSE lastIndexOf(text, c, from - 1)

\* the class of the line decoration of the Task node i: isCompleted is set
\* from the text of the TaskMarker under the node
taskLineClass(d, i) ==
    LET nodes == Docs[d].nodes
        isCompleted ==
            \E m \in 1..Len(nodes) :
                /\ nodes[m].name = "TaskMarker"
                /\ i \in Ancestors(nodes, m)
                /\ \/ Includes(sliceString(d, nodes[m].from, nodes[m].to), "x")
                   \/ Includes(sliceString(d, nodes[m].from, nodes[m].to), "X")
    IN  IF isCompleted THEN "cm-task-line cm-task-completed"
        ELSE "cm-task-line cm-task-pending"

\* createTaskLineDecorations(state): one line decoration at the start of the
\* line of every Task node
createTaskLineDecorations(d) ==
    LET nodes == Docs[d].nodes
        pushAt == [i \in 1..Len(nodes) |->
                     IF nodes[i].name = "Task"
                     THEN LET lineStart ==
                                  lastIndexOf(Docs[d].text, "\n",
                                              nodes[i].from) + 1
                          IN  <<Range("line", taskLineClass(d, i), lineStart,
                                      lineStart)>>
                     ELSE <<>>]
    IN  Pushed(nodes, Entered(nodes, {}), pushAt, 1)

----------------------------------------------------------------------------
(* Task toggling: TaskListWidget.toggleTask, the updateTaskSource listener *)
(* and toggleTaskAtPosition                                                *)

\* s.trim()
RECURSIVE trimEnd(_)
trimEnd(s) ==
    IF s # <<>> /\ WHITESPACE(s[Len(s)]) THEN trimEnd(SubSeq(s, 1, Len(s) - 1))
    ELSE s

trim(s) == trimEnd(SliceFrom(s, RunLength(s, 0, WhitespaceChars)))

\* docText.indexOf(sub): the first index at which sub occurs, -1 when none
indexOf(s, sub) ==
    LET found == {i \in 0..(Len(s) - Len(sub)) :
                     Slice(s, i, i + Len(sub)) = sub}
    IN  IF found = {} THEN -1
        ELSE CHOOSE i \in found : \A j \in found : i <= j

\* line.match(/^(\s*)-\s*\[([ xX])\]\s*(.*)$/) and, with the groups of
\* /^(\s*-\s*)\[([ xX])\](.*)$/, the match of toggleTaskAtPosition: mark is
\* the index of the check state, rest the index where (.*) starts after \s*
taskMatch(line) ==
    LET a == RunLength(line, 0, WhitespaceChars)
        b == a + 1 + RunLength(line, a + 1, WhitespaceChars)
    IN  [ok |-> /\ At(line, a) = "-" /\ At(line, b) = "["
                /\ At(line, b + 1) \in {" ", "x", "X"}
                /\ At(line, b + 2) = "]",
         indent |-> Slice(line, 0, a),
         mark |-> b + 1,
         rest |-> b + 3 + RunLength(line, b + 3, WhitespaceChars)]

\* checkState.toLowerCase() === 'x' ? ' ' : 'x'
newCheckState(checkState) == IF checkState \in {"x", "X"} THEN " " ELSE "x"

\* the index in lines of the task of index taskIndex, 0 when there is none:
\* the for loop of toggleTask counting the matching lines from line n
RECURSIVE taskLineFrom(_, _, _)
taskLineFrom(lines, n, taskIndex) ==
    IF n > Len(lines) THEN 0
    ELSE IF ~taskMatch(lines[n]).ok THEN taskLineFrom(lines, n + 1, taskIndex)
    ELSE IF taskIndex = 0 THEN n
    ELSE taskLineFrom(lines, n + 1, taskIndex - 1)

\* TaskListWidget.toggleTask(taskIndex): the updatedSource of the event it
\* dispatches
toggleTask(source, taskIndex) ==
    LET lines == Split(trim(source))
        i == taskLineFrom(lines, 1, taskIndex)
        m == taskMatch(lines[i])
    IN  Join([n \in 1..Len(lines) |->
                IF n = i
                THEN m.indent
                     \o <<"-", " ", "[", newCheckState(At(lines[i], m.mark)),
                          "]", " ">>
                     \o SliceFrom(lines[i], m.rest)
                ELSE lines[n]],
             <<"\n">>)

\* taskToggleListener: the first occurrence of originalSource is replaced
taskToggleListener(docText, originalSource, updatedSource) ==
    LET sourceIndex == indexOf(docText, originalSource)
    IN  IF sourceIndex = -1 THEN docText
        ELSE Slice(docText, 0, sourceIndex) \o updatedSource
             \o SliceFrom(docText, sourceIndex + Len(originalSource))

\* state.doc.lineAt(pos): from and to of the line that holds pos
lineAt(docText, pos) ==
    LET from == lastIndexOf(docText, "\n", pos - 1) + 1
        ends == {e \in from..Len(docText) : At(docText, e) = "\n"}
    IN  [from |-> from,
         to |-> IF ends = {} THEN Len(docText)
                ELSE CHOOSE e \in ends : \A f \in ends : e <= f]

\* toggleTaskAtPosition(view, pos): the document after the dispatch
toggleTaskAtPosition(docText, pos) ==
    LET line == lineAt(docText, pos)
        lineText == Slice(docText, line.from, line.to)
        m == taskMatch(lineText)
    IN  IF ~m.ok THEN docText
        ELSE Slice(docText, 0, line.from)
             \o Slice(lineText, 0, m.mark - 1)
             \o <<"[", newCheckState(At(lineText, m.mark)), "]">>
             \o SliceFrom(lineText, m.mark + 2)
             \o SliceFrom(docText, line.to)

----------------------------------------------------------------------------
(* The update handlers of the plugin and of the fields                     *)

\* a ViewUpdate or Transaction: what it changed
Update(docChanged, viewportChanged, selectionSet) ==
    [docChanged |-> docChanged, viewportChanged |-> viewportChanged,
     selectionSet |-> selectionSet]

\* an update that recomputes the plan only when the document changed
updateOnDocChanged(dec, update, d, cur, wysiwyg) ==
    IF update.docChanged THEN process(d, cur, wysiwyg) ELSE dec

\* RichStylingPlugin.update(update)
RichStylingPlugin_update(dec, update, d, cur, wysiwyg) ==
    IF update.docChanged \/ update.viewportChanged \/ update.selectionSet
    THEN process(d, cur, wysiwyg)
    ELSE dec

\* taskLineDecorationField.update(decorations, transaction): without a
\* document change the set is mapped through no change at all
taskLineDecorationField_update(dec, transaction, d) ==
    IF transaction.docChanged THEN createTaskLineDecorations(d) ELSE dec

----------------------------------------------------------------------------
(* shared.ts: caret offsets in the rendered blocks                         *)
(*                                                                         *)
(* A rendered block is the sequence of its child nodes: a text node, an    *)
(* element with a data-text attribute (an atomic leaf, e.g. the button of  *)
(* a heading or of a link url), or an element that wraps such leaves (a    *)
(* span).  A node is named by its path of child indexes from the block,    *)
(* <<>> being the block element itself.                                    *)

Text(t) == [kind |-> "text", text |-> t, children |-> <<>>]
Atom(t) == [kind |-> "atom", text |-> t, children |-> <<>>]
Span(cs) == [kind |-> "span", text |-> <<>>, children |-> cs]

Position(b, node, offset) == [block |-> b, node |-> node, offset |-> offset]

\* the result of a call that throws a TypeError
Thrown == -1

\* iterateNodes(parent): the text nodes and the data-text elements, in
\* document order
iterateNodes(el) ==
    Flat([i \in 1..Len(el) |->
            IF el[i].kind = "span"
            THEN [j \in 1..Len(el[i].children) |->
                    [node |-> <<i, j>>, text |-> el[i].children[j].text,
                     kind |-> el[i].children[j].kind]]
            ELSE <<[node |-> <<i>>, text |-> el[i].text,
                    kind |-> el[i].kind]>>])

\* getOffsetPosition(el, offset), el being the block b of els; positionFrom
\* is its for loop from the n-th node of iterateNodes(el)
RECURSIVE getOffsetPosition(_, _, _)
RECURSIVE positionFrom(_, _, _, _)
positionFrom(els, b, n, offset) ==
    IF n > Len(iterateNodes(els[b]))
    THEN IF offset > 0 /\ b < Len(els)
         THEN getOffsetPosition(els, b + 1, offset - 1)
         ELSE Position(b, <<>>, 0)
    ELSE LET leaf == iterateNodes(els[b])[n]
             last == Len(leaf.node)
         IN  IF Len(leaf.text) >= offset
             THEN IF leaf.kind = "atom"
                  THEN Position(b, SubSeq(leaf.node, 1, last - 1),
                                (leaf.node[last] - 1)
                                + (IF offset >= Len(leaf.text) THEN 1 ELSE 0))
                  ELSE Position(b, leaf.node, offset)
             ELSE positionFrom(els, b, n + 1, offset - Len(leaf.text))

getOffsetPosition(els, b, offset) ==
    IF offset < 0 THEN Position(b, <<>>, 0)
    ELSE positionFrom(els, b, 1, offset)

\* node.compareDocumentPosition(target) === DOCUMENT_POSITION_PRECEDING: the
\* target comes before the node and does not contain it
targetPrecedes(node, target) ==
    /\ ~(Len(target) <= Len(node) /\ SubSeq(node, 1, Len(target)) = target)
    /\ \/ target[1] < node[1]
       \/ /\ target[1] = node[1] /\ Len(target) = 2 /\ Len(node) = 2
          /\ target[2] < node[2]

\* the text node or data-text element a caret at (target, offset) is counted
\* in and the offset in it: lines 110-140 of getOffset
caretLeaf(el, target, offset) ==
    LET leaves == iterateNodes(el)
        isText == \E n \in 1..Len(leaves) :
                      leaves[n].node = target /\ leaves[n].kind = "text"
        kept == {n \in 1..Len(leaves) :
                    \A m \in 1..n : ~targetPrecedes(leaves[m].node, target)}
        current == CHOOSE n \in kept : \A m \in kept : m <= n
    IN  IF isText THEN Position(0, target, offset)
        ELSE IF target = <<>>
        THEN IF offset - 1 \notin 0..(Len(el) - 1) THEN Position(0, <<>>, Thrown)
             ELSE IF el[offset].kind # "span"
             THEN Position(0, <<offset>>, Len(el[offset].text))
             ELSE IF el[offset].children = <<>>
             THEN Position(0, <<>>, Thrown)
             ELSE Position(0, <<offset, Len(el[offset].children)>>,
                           Len(el[offset].children[
                                   Len(el[offset].children)].text))
        ELSE IF kept = {}
        THEN Position(0, <<>>, IF offset = 0 THEN 0 ELSE Thrown)
        ELSE Position(0, leaves[current].node, Len(leaves[current].text))

\* the loop that ends getOffset: the text before the node, plus the offset
RECURSIVE offsetFrom(_, _, _, _)
offsetFrom(leaves, n, at, pos) ==
    IF n > Len(leaves) THEN pos
    ELSE IF leaves[n].node = at.node THEN pos + at.offset
    ELSE offsetFrom(leaves, n + 1, at, pos + Len(leaves[n].text))

\* getOffset(parent, target, offset)
getOffset(el, target, offset) ==
    IF target = <<>> /\ offset = 0 THEN 0
    ELSE IF caretLeaf(el, target, offset).node = <<>>
    THEN caretLeaf(el, target, offset).offset
    ELSE offsetFrom(iterateNodes(el), 1, caretLeaf(el, target, offset), 0)

----------------------------------------------------------------------------
(* Bounds and inputs                                                       *)

MaxDocLines == 3     \* lines of a document given to the Editor
MaxInlineLen == 3    \* characters of a one-line document of inline markup
MaxOldLines == 4     \* lines of a document that getNewState edits
MaxNewLines == 5     \* lines of the document an edit leaves
MaxTextLines == 2    \* lines of the replacement text of an edit
MaxEdits == 1        \* edits applied in a row
MaxAssign == 2       \* times the value read is assigned back
MaxSelect == 2       \* characters covered by a selection range

Fence == <<Backtick, Backtick, Backtick>>

SeqsUpTo(S, n) == UNION {[1..k -> S] : k \in 1..n}

StringsUpTo(S, n) == UNION {[1..k -> S] : k \in 0..n}

\* one line of each kind the block parser tells apart
ParseLines ==
    {<<>>, <<" ">>, <<"a">>, Fence, Fence \o <<"a">>, <<"#", " ", "a">>,
     <<"-", "-", "-">>, <<"-", " ", "[", "x", "]", " ", "a">>,
     <<"-", " ", "a">>, <<"1", ".", " ", "a">>, <<">", " ", "a">>,
     <<"*", "a", "*">>}

InlineChars == {"a", " ", "*", "[", "]", "(", ")"}

ParseDocs ==
    {Join(ls, <<"\n">>) : ls \in SeqsUpTo(ParseLines, MaxDocLines)}
        \cup StringsUpTo(InlineChars, MaxInlineLen)

EditLines == {<<"a">>, <<"b">>, Fence}

EditDocs == {Join(ls, <<"\n">>) : ls \in SeqsUpTo(EditLines, MaxOldLines)}

EditTexts == {Join(ls, <<"\n">>) : ls \in SeqsUpTo(EditLines, MaxTextLines)}

MaxChildren == 2     \* child nodes of a rendered block, and of a span in it
MaxLeafLen == 2      \* characters of a data-text attribute
MaxBlocks == 2       \* rendered blocks of the document
MaxCarets == 1       \* times the caret is set

DomLeaves ==
    {Text(<<"a">>)} \cup {Atom([i \in 1..n |-> "#"]) : n \in 1..MaxLeafLen}

DomBlocks ==
    StringsUpTo(DomLeaves \cup {Span(cs) : cs \in SeqsUpTo(DomLeaves,
                                                          MaxChildren)},
                MaxChildren)

MaxTaskLines == 2    \* lines of a task list
MaxTaskBlocks == 3   \* task lists and paragraphs of a document

TaskLines ==
    {<<"-", " ", "[", " ", "]", " ", "a">>,
     <<"-", " ", "[", "x", "]", " ", "a">>,
     <<"-", " ", "[", " ", "]", " ", "b">>}

\* a task list of some lines, or the paragraph 'b'
TaskBlocks ==
    {[list |-> TRUE, text |-> Join(ls, <<"\n">>)] :
        ls \in SeqsUpTo(TaskLines, MaxTaskLines)}
        \cup {[list |-> FALSE, text |-> <<"b">>]}

\* blocks with a blank line between them; two lists that only a blank line
\* separates would be one list
TaskDocs ==
    {bs \in SeqsUpTo(TaskBlocks, MaxTaskBlocks) :
        \A j \in 1..(Len(bs) - 1) : ~(bs[j].list /\ bs[j + 1].list)}

MaxFiles == 2        \* files of the open directory

Files == 1..MaxFiles

FileTexts == {<<"a">>, <<"b">>}

MaxMarkLen == 5      \* characters of a text of symmetric markers
MaxLinkLen == 6      \* characters of a text of brackets and parentheses

MarkChars == {"a", " ", "*", "~", Backtick}

LinkChars == {"a", "[", "]", "(", ")"}

\* a text for each of the other recognisers, alone and where a link stands too
OtherTexts ==
    {<<":", ":", "a", ":", ":">>, <<":", ":", "a">>, <<"#", "a", "#">>,
     <<"#", "#">>, <<"[", "[", "a", "]", "]">>,
     <<"[", "f", "i", "l", "e", ":", "a", "]">>,
     <<"[", "i", "m", "a", "g", "e", ":", "a", "]">>,
     <<"[", "f", "i", "l", "e", ":", "a", "]", "(", "a", ")">>,
     <<"_", "_", "a", "_", "_">>, <<"_", "a", "_">>}

MaxBlockLines == 2   \* lines of a document of the block rules

\* ParseLines and the lines that several block rules match
BlockLines ==
    ParseLines
        \cup {<<"*", "*", "*">>, <<"_", "_", "_">>, <<"-", "-", "-", "-">>,
              <<"-", " ", "[", " ", "]", " ", "a">>,
              <<" ", "-", " ", "[", "x", "]", " ", "a">>,
              <<"*", " ", "a">>, <<" ", "1", ".", " ", "a">>,
              <<"#", " ", "-", " ", "a">>, <<">", " ", "-", " ", "a">>,
              <<"-", " ", "[", "X", "]", " ", "a">>}

BlockDocs ==
    {Join(ls, <<"\n">>) : ls \in SeqsUpTo(BlockLines, MaxBlockLines)}

MaxHaltLen == 4      \* characters of a text whose scan is run to its end

HaltTexts == StringsUpTo(InlineChars, MaxHaltLen)

MaxTagLen == 5       \* characters of a text of tags

TagChars == {"a", " ", "#"}

InlineTexts ==
    StringsUpTo(MarkChars, MaxMarkLen) \cup StringsUpTo(LinkChars, MaxLinkLen)
        \cup StringsUpTo(TagChars, MaxTagLen) \cup OtherTexts

\* the blocks that follow the first one
DomFollowers == {<<>>, <<Text(<<"a">>)>>}

DomDocs ==
    {<<b>> \o f : b \in DomBlocks, f \in StringsUpTo(DomFollowers,
                                                     MaxBlocks - 1)}

----------------------------------------------------------------------------
(* editor.ts: Editor                                                       *)

Op(name, from, to, text, count) ==
    [name |-> name, from |-> from, to |-> to, text |-> text, count |-> count]

Identity(n) == [j \in 1..n |-> j]

\* new Editor({value}): the constructor ends with this.value = value
EditorInit(d) ==
    /\ value = d
    /\ state = parseBlockString(d)
    /\ prev = state
    /\ origin = Identity(Len(state))
    /\ op = Op("new", 0, 0, <<>>, 0)
    /\ out = <<>>

\* get value(): serializeState(this.state, true)
GetValue ==
    /\ out' = serializeState(state, TRUE)
    /\ op' = Op("get", 0, 0, <<>>, op.count)
    /\ UNCHANGED <<value, state, prev, origin>>

\* set value(value): this.update(Array.from(this.parser(value)))
SetValue(d) ==
    /\ value' = d
    /\ state' = parseBlockString(d)
    /\ prev' = state
    /\ origin' = [j \in 1..Len(state') |-> 0]
    /\ op' = Op("set", 0, 0, <<>>, op.count + 1)
    /\ UNCHANGED out

\* editor.value = editor.value
Reassign == op.name = "get" /\ op.count < MaxAssign /\ SetValue(out)

\* editor.update(getNewState(editor, from, to, text))
Edit(from, to, text) ==
    /\ op.count < MaxEdits
    /\ Len(newLinesOf(state, from, to, text)) <= MaxNewLines
    /\ \E newState \in {getNewState(state, from, to, text)} :
        /\ state' = [j \in 1..Len(newState) |-> newState[j].block]
        /\ origin' = [j \in 1..Len(newState) |-> newState[j].ref]
        /\ prev' = state
        /\ op' = Op("edit", from, to, text, op.count + 1)
        /\ UNCHANGED <<value, out>>

----------------------------------------------------------------------------
(* The caret of the Editor                                                 *)

\* getText(node).length
RECURSIVE textLength(_)
textLength(leaves) ==
    IF leaves = <<>> THEN 0
    ELSE Len(Head(leaves).text) + textLength(Tail(leaves))

Caret(b, offset, read, count) ==
    [block |-> b, offset |-> offset, read |-> read, count |-> count]

\* an Editor whose caret is not exercised
DomIdle ==
    /\ element = <<>>
    /\ caret = Caret(0, 0, FALSE, 0)
    /\ selection = Position(0, <<>>, 0)
    /\ offsetRead = 0

\* the rendered blocks of a document, before any caret is set
DomInit(els) ==
    /\ element = els
    /\ caret = Caret(0, 0, FALSE, 0)
    /\ selection = Position(0, <<>>, 0)
    /\ offsetRead = 0

\* setOffset(editor, [b, offset]) with the blocks counted from 1: nothing is
\* done when the block does not exist
SetOffset(b, offset) ==
    /\ caret.count < MaxCarets
    /\ caret' = Caret(b, offset, FALSE, caret.count + 1)
    /\ selection' = IF b \in 1..Len(element)
                    THEN getOffsetPosition(element, b, offset)
                    ELSE selection
    /\ UNCHANGED <<element, offsetRead>>

\* editor.selection.anchorOffset: getOffset on the block of the selection
ReadOffset ==
    /\ selection.block \in 1..Len(element)
    /\ ~caret.read
    /\ offsetRead' = getOffset(element[selection.block], selection.node,
                               selection.offset)
    /\ caret' = Caret(caret.block, caret.offset, TRUE, caret.count)
    /\ UNCHANGED <<element, selection>>

\* the text of the whole document, a line break between two blocks
DomLength ==
    textLength(Flat([b \in 1..Len(element) |-> iterateNodes(element[b])]))
        + Len(element) - 1

----------------------------------------------------------------------------
(* Clicks on the checkboxes of tasks                                       *)

Click(kind, from, to, taskIndex, before) ==
    [kind |-> kind, from |-> from, to |-> to, taskIndex |-> taskIndex,
     before |-> before]

\* an editor in which no task is clicked
TaskIdle ==
    /\ taskDoc = <<>>
    /\ taskLists = {}
    /\ click = Click("none", 0, 0, 0, <<>>)

\* the offset of block j in the text of the blocks bs
RECURSIVE blockFrom(_, _)
blockFrom(bs, j) ==
    IF j = 1 THEN 0 ELSE blockFrom(bs, j - 1) + Len(bs[j - 1].text) + 2

\* a document of task lists and paragraphs, its BulletList nodes
TaskInit(bs) ==
    /\ taskDoc = Join([j \in 1..Len(bs) |-> bs[j].text], <<"\n", "\n">>)
    /\ taskLists = {[from |-> blockFrom(bs, j),
                     to |-> blockFrom(bs, j) + Len(bs[j].text)] :
                        j \in {k \in 1..Len(bs) : bs[k].list}}
    /\ click = Click("none", 0, 0, 0, <<>>)

\* a click on the checkbox of index taskIndex of the widget that replaces
\* the list: toggleTask dispatches updateTaskSource and the listener of the
\* editor changes the document.  The toggle keeps the length of a line
\* written as '- [ ] text', so the ranges of the lists stay.
ClickCheckbox(list, taskIndex) ==
    /\ click.kind = "none"
    /\ list \in taskLists
    /\ hasTask(Slice(taskDoc, list.from, list.to))
    /\ taskLineFrom(Split(trim(Slice(taskDoc, list.from, list.to))), 1,
                    taskIndex) # 0
    /\ taskDoc' = taskToggleListener(
                      taskDoc, Slice(taskDoc, list.from, list.to),
                      toggleTask(Slice(taskDoc, list.from, list.to),
                                 taskIndex))
    /\ click' = Click("widget", list.from, list.to, taskIndex, taskDoc)
    /\ UNCHANGED taskLists

\* a mousedown on a task line, within the first 20 characters of the line:
\* taskLineEventHandler calls toggleTaskAtPosition
ClickTaskLine(pos) ==
    /\ click.kind = "none"
    /\ \E list \in taskLists : list.from <= pos /\ pos <= list.to
    /\ pos - lineAt(taskDoc, pos).from <= 20
    /\ taskDoc' = toggleTaskAtPosition(taskDoc, pos)
    /\ click' = Click("line", lineAt(taskDoc, pos).from,
                      lineAt(taskDoc, pos).to, 0, taskDoc)
    /\ UNCHANGED taskLists

----------------------------------------------------------------------------
(* FileManager.svelte and the page that holds it: opening, editing, saving *)

\* an async call: where it stands, the handle and the content it carries
Call(pc, handle, content) == [pc |-> pc, handle |-> handle, content |-> content]

NoCall == Call("idle", 0, <<>>)

\* the page before any file is opened: originalContent = editorContent
FileInit(disk, content) ==
    /\ files = disk
    /\ currentFile = 0
    /\ editorContent = content
    /\ originalContent = content
    /\ isDirty = FALSE
    /\ saving = NoCall
    /\ opening = NoCall

\* the update listener of the page, on a change of the document by the user
updateListener(content) ==
    /\ content # editorContent
    /\ editorContent' = content
    /\ isDirty' = (content # originalContent)
    /\ UNCHANGED <<files, currentFile, originalContent, saving, opening>>

\* openFile(fileHandle, path) up to its dispatch: the file is read
openFile(fileHandle) ==
    /\ opening = NoCall
    /\ opening' = Call("read", fileHandle, files[fileHandle])
    /\ UNCHANGED <<files, currentFile, editorContent, originalContent,
                   isDirty, saving>>

\* handleFileOpened, and the update listener that editor.setValue runs
handleFileOpened ==
    /\ opening.pc = "read"
    /\ currentFile' = opening.handle
    /\ editorContent' = opening.content
    /\ originalContent' = opening.content
    /\ isDirty' = FALSE
    /\ opening' = NoCall
    /\ UNCHANGED <<files, saving>>

\* handleKeyDown (Ctrl+S) or the auto-save timer: saveFile() up to the
\* await of currentFile.createWritable(); one save is in flight at a time
saveFile ==
    /\ currentFile # 0 /\ isDirty
    /\ saving = NoCall
    /\ saving' = Call("created", currentFile, <<>>)
    /\ UNCHANGED <<files, currentFile, editorContent, originalContent,
                   isDirty, opening>>

\* saveFile: writable.write(currentContent), currentContent being bound to
\* editorContent
saveFileWrite ==
    /\ saving.pc = "created"
    /\ saving' = Call("written", saving.handle, editorContent)
    /\ UNCHANGED <<files, currentFile, editorContent, originalContent,
                   isDirty, opening>>

\* saveFile: writable.close() puts the written content in the file, then
\* dispatch('fileSaved', {handle: currentFile}) runs handleFileSaved
handleFileSaved ==
    /\ saving.pc = "written"
    /\ files' = [files EXCEPT ![saving.handle] = saving.content]
    /\ originalContent' = editorContent
    /\ isDirty' = FALSE
    /\ saving' = NoCall
    /\ UNCHANGED <<currentFile, editorContent, opening>>

\* a page on which no file is handled
FileIdle == FileInit([f \in Files |-> <<>>], <<>>)

----------------------------------------------------------------------------
(* parser.ts: parseInline, one turn of its while loop at a time            *)

\* the state object of parseInline, with the index the last turn started at
\* and the branch of the if-else chain it took
Scan(string, index, tokens, at, by) ==
    [string |-> string, index |-> index, tokens |-> tokens, at |-> at,
     by |-> by]

ScanInit(text) == scan = Scan(text, 0, <<>>, 0, "none")

ScanIdle == ScanInit(<<>>)

\* the branch of the chain that was taken: the first recogniser that returned
\* true, the addText of the last else when none did
RECURSIVE takenBy(_, _, _)
takenBy(names, string, index) ==
    IF names = <<>> THEN "text"
    ELSE IF tryInline(Head(names), string, index).ok THEN Head(names)
    ELSE takenBy(Tail(names), string, index)

\* a turn whose else branch calls no addText: the index stays where it was
turnWithoutStep(r, st) ==
    IF r.ok
    THEN Scan(st.string, r.next, Append(st.tokens, r.token), st.index,
              takenBy(inlineOrder, st.string, st.index))
    ELSE Scan(st.string, st.index, st.tokens, st.index, "text")

\* what a turn leaves in the state object, r being what the chain returned
turnWith(r, st) ==
    IF r.ok
    THEN Scan(st.string, r.next, Append(st.tokens, r.token), st.index,
              takenBy(inlineOrder, st.string, st.index))
    ELSE Scan(st.string, st.index + 1,
              addText(st.tokens, At(st.string, st.index)), st.index, "text")

\* one turn of while (state.index < text.length)
parseInlineTurn ==
    /\ scan.index < Len(scan.string)
    /\ scan' = turnWith(firstInline(inlineOrder, scan.string, scan.index), scan)

----------------------------------------------------------------------------
(* parseBlock and getNewState, one turn of their while loops at a time     *)

\* a generator of parseBlock over lines, and the index its last turn started at
BlockGen(lines, index, at) == [lines |-> lines, index |-> index, at |-> at]

BlockGenInit(lines) == blockGen = BlockGen(lines, 0, -1)

\* one turn of while (index < lines.length) of parseBlock
parseBlockTurn ==
    /\ blockGen.index < Len(blockGen.lines)
    /\ blockGen' =
           BlockGen(blockGen.lines,
                    blockGen.index
                        + lengthOr1(blockAt(blockGen.lines, blockGen.index, FALSE)),
                    blockGen.index)

\* the locals of the while loop of getNewState, c being what it does not
\* change and at the lineIndex its last turn started at
Loop(c, lineIndex, oldLineIndex, preparser, block, newState, at) ==
    [c |-> c, lineIndex |-> lineIndex, oldLineIndex |-> oldLineIndex,
     preparser |-> preparser, block |-> block, newState |-> newState,
     at |-> at]

\* preparser = editor.parser(newLines.slice(lineIndex), true);
\* block = preparser.next().value;
restarted(c, lineIndex, oldLineIndex, newState, at) ==
    Loop(c, lineIndex, oldLineIndex,
         genAdvance(Generator(SliceFrom(c.newLines, lineIndex)), TRUE),
         genValue(Generator(SliceFrom(c.newLines, lineIndex)), TRUE),
         newState, at)

\* the turn through the changed zone, its blocks parsed and their m lines
\* counted
zoneTurn(l, parsed, m) ==
    restarted(l.c, l.lineIndex + m,
              l.oldLineIndex
                  + sumLengths(SubSeq(l.c.state, l.c.from + 1, l.c.to + 1))
                  + m - Len(l.c.lines),
              l.newState \o FreshAll(parsed), l.lineIndex)

\* the turn that parses the block again: its type changed
typeChangedTurn(l, newBlock) ==
    restarted(l.c, l.lineIndex + lengthOr1(newBlock),
              l.oldLineIndex + lengthOr1(newBlock),
              Append(l.newState, Fresh(newBlock)), l.lineIndex)

\* the turn outside the zone, i being the old block found at oldLineIndex
reuseTurn(l, i) ==
    IF reuseOld(l.c.state, i, l.block)
    THEN Loop(l.c, l.lineIndex + lengthOr1(l.block),
              l.oldLineIndex + lengthOr1(l.block),
              genAdvance(l.preparser, TRUE), genValue(l.preparser, TRUE),
              Append(l.newState, Reused(l.c.state, i)), l.lineIndex)
    ELSE typeChangedTurn(l, blockAt(SliceFrom(l.c.newLines, l.lineIndex), 0,
                                    FALSE))

zoneOf(l) ==
    parseZone(SliceFrom(l.c.newLines, l.lineIndex), 0, 0, Len(l.c.lines))

\* what one turn of while (block) leaves in the locals
loopTurn(l) ==
    IF /\ l.lineIndex + lengthOr1(l.block) - 1 >= Len(l.c.textBefore)
       /\ l.lineIndex < Len(l.c.textBefore) + Len(l.c.lines)
    THEN zoneTurn(l, zoneOf(l), sumLengths(zoneOf(l)))
    ELSE reuseTurn(l, findOld(l.c.state, l.oldLineIndex))

\* getNewState(editor, from, to, text) up to its while loop
LoopInit(oldState, from, to, text) ==
    loop = restarted(loopContext(oldState, from, to, text), 0, 0, <<>>, -1)

getNewStateTurn ==
    /\ loop.block # Undefined
    /\ loop' = loopTurn(loop)

\* no generator and no call of getNewState at work
LoopIdle ==
    /\ BlockGenInit(<<>>)
    /\ loop = Loop(loopContext(<<>>, 0, 0, <<>>), 0, 0, Generator(<<>>),
                   Undefined, <<>>, -1)

----------------------------------------------------------------------------
(* CodeMirrorEditor                                                        *)

Cursor(from, to) == [from |-> from, to |-> to]

\* the update of every state field on a transaction: the widget fields plan
\* again on every transaction
FieldsUpdated(d, cur, transaction) ==
    /\ tableField' = replaceTableBlocks(d, cur)
    /\ codeField' = replaceCodeBlocks(d, cur)
    /\ taskField' = replaceTaskListBlocks(d, cur)
    /\ blockField' = replaceBlocks(d, cur)
    /\ taskLineField' =
            taskLineDecorationField_update(taskLineField, transaction, d)
    /\ tr' = transaction

\* what a transaction leaves in the plugin and in the fields
Planned(d, cur, wysiwyg, transaction) ==
    /\ decorations' =
            RichStylingPlugin_update(decorations, transaction, d, cur, wysiwyg)
    /\ FieldsUpdated(d, cur, transaction)

\* new CodeMirrorEditor(container, initialContent, wysiwygMode)
CodeMirrorInit(d, wysiwyg) ==
    /\ doc = d
    /\ cursor = Cursor(0, 0)
    /\ wysiwygMode = wysiwyg
    /\ decorations = process(d, cursor, wysiwyg)
    /\ tableField = replaceTableBlocks(d, cursor)
    /\ codeField = replaceCodeBlocks(d, cursor)
    /\ taskField = replaceTaskListBlocks(d, cursor)
    /\ blockField = replaceBlocks(d, cursor)
    /\ taskLineField = createTaskLineDecorations(d)
    /\ tr = Update(FALSE, FALSE, FALSE)

\* view.dispatch({selection}): the user moves the caret or selects
Select(from, to) ==
    /\ from <= to /\ to - from <= MaxSelect
    /\ to <= Len(Docs[doc].text)
    /\ cursor' = Cursor(from, to)
    /\ Planned(doc, cursor', wysiwygMode, Update(FALSE, FALSE, TRUE))
    /\ UNCHANGED <<doc, wysiwygMode>>

\* setValue(content): the whole document is replaced; the caret is mapped to
\* one end of the inserted text
SetContent(d, atEnd) ==
    /\ doc' = d
    /\ cursor' = IF atEnd THEN Cursor(Len(Docs[d].text), Len(Docs[d].text))
                 ELSE Cursor(0, 0)
    /\ Planned(d, cursor', wysiwygMode, Update(TRUE, FALSE, FALSE))
    /\ UNCHANGED wysiwygMode

\* setWysiwygMode(enabled): the extensions are made again, the plugin is
\* constructed anew with the new mode and the fields see a transaction that
\* changes neither the document nor the selection
setWysiwygMode(enabled) ==
    /\ wysiwygMode' = enabled
    /\ decorations' = process(doc, cursor, enabled)
    /\ FieldsUpdated(doc, cursor, Update(FALSE, FALSE, FALSE))
    /\ UNCHANGED <<doc, cursor>>

\* the length of the longest document of Docs
MaxOffset ==
    CHOOSE n \in {Len(Docs[d].text) : d \in 1..Len(Docs)} :
        \A d \in 1..Len(Docs) : Len(Docs[d].text) <= n

----------------------------------------------------------------------------
(* Editor: the state setter and the children of the element (editor.ts)    *)

MaxBlockObjects == 4 \* block objects a state array can hold
MaxStateLen == 3     \* blocks of a state array
MaxSets == 2         \* assignments to editor.state after the constructor's

\* a block object is its identity; two objects never render alike here, so
\* the content of toDOM(b) is told by b
BlockObjects == 1..MaxBlockObjects

\* the state arrays: no block object stands twice in one array
StateArrays ==
    {s \in UNION {[1..n -> BlockObjects] : n \in 0..MaxStateLen} :
        \A i, j \in 1..Len(s) : i # j => s[i] # s[j]}

\* array.includes(x) and array.arrayIndexOf(x), 0-based, -1 when absent
includes(array, x) == \E i \in 1..Len(array) : array[i] = x

arrayIndexOf(array, x) ==
    IF includes(array, x)
    THEN (CHOOSE i \in 1..Len(array) :
            array[i] = x /\ \A j \in 1..(i - 1) : array[j] # x) - 1
    ELSE -1

\* array[i], 0-based, 0 for undefined (elements and blocks count from 1)
Item(array, i) == IF i >= 0 /\ i < Len(array) THEN array[i + 1] ELSE 0

\* the element and its children: children and _elements hold element
\* identities, shows[e] is the block whose content element e has; sets
\* counts the assignments, prevState and prevElements keep what the last
\* assignment started from
View(_state, _elements, children, shows, sets, prevState, prevElements) ==
    [_state |-> _state, _elements |-> _elements, children |-> children,
     shows |-> shows, sets |-> sets, prevState |-> prevState,
     prevElements |-> prevElements]

\* parent.insertBefore(el, current): el leaves the place it had, and goes
\* before current, or to the end when current is undefined
insertBefore(children, el, current) ==
    LET rest == SelectSeq(children, LAMBDA e : e # el)
        at == arrayIndexOf(rest, current)
    IN IF current = 0 \/ at = -1
       THEN Append(rest, el)
       ELSE SubSeq(rest, 1, at) \o <<el>> \o SubSeq(rest, at + 1, Len(rest))

\* one turn of state.forEach over a view v whose _state is already the new
\* array: a block of the old state moves its element before the current
\* child; a new block is rendered, and morphed into the element _elements
\* has at the index when the old block at that index is dropped
placed(v, prevState, node, index) ==
    LET current == Item(v.children, index)
        el == Item(v._elements, arrayIndexOf(prevState, node))
        made == Len(v.shows) + 1
        morph == ~includes(v._state, Item(prevState, index))
    IN IF includes(prevState, node)
       THEN IF el = current
            THEN v
            ELSE [v EXCEPT !.children = insertBefore(@, el, current)]
       ELSE IF morph /\ Item(v._elements, index) # 0
            THEN [v EXCEPT !.shows[Item(v._elements, index)] = node]
            ELSE [v EXCEPT !.shows = Append(@, node),
                           !.children = insertBefore(@, made, current)]

RECURSIVE forEach(_, _, _)
forEach(v, prevState, index) ==
    IF index >= Len(v._state)
    THEN v
    ELSE forEach(placed(v, prevState, v._state[index + 1], index),
                 prevState, index + 1)

\* while (childElementCount > state.length) lastElementChild.remove()
trimmed(children, n) == SubSeq(children, 1, Min(Len(children), n))

\* set state(next), the array being another one than _state
assigned(v, next) ==
    LET w == forEach([v EXCEPT !._state = next], v._state, 0)
        children == trimmed(w.children, Len(next))
    IN View(next, children, children, w.shows, v.sets + 1, v._state,
            v._elements)

\* the constructor: _state and _elements empty, then the value's blocks
ViewInit(next) ==
    view = [assigned(View(<<>>, <<>>, <<>>, <<>>, 0, <<>>, <<>>), next)
              EXCEPT !.sets = 0]

ViewIdle == ViewInit(<<>>)

\* editor.state = next; the same array returns at once
SetState(next, same) ==
    /\ view.sets < MaxSets
    /\ view' = IF same THEN [view EXCEPT !.sets = @ + 1]
                       ELSE assigned(view, next)

----------------------------------------------------------------------------
(* parseMarkdownWasm, an async generator (wasm-parser.ts)                  *)

\* the texts given to the parser
SimpleTexts ==
    {<<>>, <<"a">>, <<"#", " ", "a">>, <<"a", "\n", "b">>}

\* the fallback block: {type: 'paragraph', content: [input], length: 1}
fallbackParagraph(input) == Block("paragraph", <<Str(input)>>, 1)

\* what module.parse_markdown(input) can do: throw, return something that
\* is not an array, or return an array of blocks.  The module is compiled
\* from code outside the TypeScript sources, so its arrays are stood for by
\* one block per line, one heading of the whole input, and no block at all
\* for the empty input
Throws == [kind |-> "throws", blocks |-> <<>>]
NotArray == [kind |-> "value", blocks |-> <<>>]
Array(blocks) == [kind |-> "array", blocks |-> blocks]

blockPerLine(input) ==
    [i \in 1..Len(Split(input)) |->
        Block("paragraph", <<Str(Split(input)[i])>>, 1)]

parse_markdown(input) ==
    {Throws, NotArray, Array(blockPerLine(input)),
     Array(<<Block("heading", <<Str(input)>>, 1)>>)}
        \cup (IF input = <<>> THEN {Array(<<>>)} ELSE {})

\* the module variable wasmModule (loaded or not) and one generator: its
\* input, where it stands ("idle": none was made; "load": at await
\* loadWasm(); "yield": at the yield of the for loop; "fallen": at a yield
\* of the fallback; "done": returned; "raised": it threw to its consumer),
\* what loading and parsing did, and the blocks it yielded so far
Wasm(wasmModule, input, pc, loaded, result, yielded) ==
    [wasmModule |-> wasmModule, input |-> input, pc |-> pc,
     loaded |-> loaded, result |-> result, yielded |-> yielded]

WasmIdle == wasm = Wasm(FALSE, <<>>, "idle", TRUE, NotArray, <<>>)

\* a throw that no catch clause takes reaches the consumer
raised(w) == [w EXCEPT !.pc = "raised"]

\* a throw inside the try block: the catch clause yields the fallback
caught(w) ==
    [w EXCEPT !.pc = "fallen", !.yielded = <<fallbackParagraph(w.input)>>]

\* the for loop over the array: the next block is yielded, or the
\* generator returns
yieldNext(w) ==
    IF Len(w.yielded) < Len(w.result.blocks)
    THEN [w EXCEPT !.pc = "yield",
                   !.yielded = Append(@, w.result.blocks[Len(@) + 1])]
    ELSE [w EXCEPT !.pc = "done"]

\* parseMarkdownWasm(input): the generator object; its body starts with the
\* first next() of the consumer, and stops at await loadWasm()
parseMarkdownWasm(w, input) ==
    Wasm(w.wasmModule, input, "load", TRUE, NotArray, <<>>)

\* await loadWasm() settles: with ok the module is there (wasmModule is
\* set), parse_markdown gives result and the generator runs to its first
\* yield or to its return; without ok loadWasm threw
loadWasm(w, ok, result) ==
    LET v == [w EXCEPT !.loaded = ok, !.wasmModule = @ \/ ok,
                       !.result = IF ok THEN result ELSE NotArray]
    IN CASE ~ok -> caught(v)
         [] result.kind = "throws" -> caught(v)
         [] result.kind = "value" ->
                [v EXCEPT !.pc = "fallen",
                          !.yielded = <<fallbackParagraph(w.input)>>]
         [] OTHER -> yieldNext(v)

\* the consumer's next() after a yield
resumed(w) ==
    IF w.pc = "fallen" THEN [w EXCEPT !.pc = "done"] ELSE yieldNext(w)

\* the generator is suspended and its consumer may ask for more
Suspended(w) == w.pc \in {"load", "yield", "fallen"}

\* one turn of the generator; a cached module cannot fail to load
wasmTurn(w, ok, result) ==
    IF w.pc = "load" THEN loadWasm(w, ok \/ w.wasmModule, result)
    ELSE resumed(w)

\* the turns as actions: for await (const block of parseMarkdownWasm(input))
CallWasm(input) ==
    /\ wasm.pc \in {"idle", "done"}
    /\ wasm' = parseMarkdownWasm(wasm, input)

WasmTurn ==
    /\ Suspended(wasm)
    /\ \E ok \in BOOLEAN, result \in parse_markdown(wasm.input) :
          wasm' = wasmTurn(wasm, ok, result)

----------------------------------------------------------------------------
(* SimpleEditor: setValue, input, setParser and updateContent              *)

\* the editor: rendered is the array renderBlocks was last given, updates
\* counts the calls of renderBlocks up to one
Simple(originalMarkdown, currentParser, isUpdating, rendered, updates) ==
    [originalMarkdown |-> originalMarkdown, currentParser |-> currentParser,
     isUpdating |-> isUpdating, rendered |-> rendered, updates |-> updates]

SimpleIdle == simple = Simple(<<>>, "regex", FALSE, <<>>, 0)

renderBlocks(s, blocks) ==
    [s EXCEPT !.rendered = blocks, !.updates = 1, !.isUpdating = FALSE]

\* updateContent() of an editor s up to its first await: nothing when an
\* update is in flight; the regex parser parses and renders at once; the
\* wasm parser makes a generator of the text as it is now and waits
updateContent(s) ==
    /\ IF s.isUpdating
       THEN simple' = s /\ UNCHANGED wasm
       ELSE IF s.currentParser = "wasm"
            THEN /\ simple' = [s EXCEPT !.isUpdating = TRUE]
                 /\ wasm' = parseMarkdownWasm(wasm, s.originalMarkdown)
            ELSE /\ simple' = renderBlocks(s, parseBlockString(s.originalMarkdown))
                 /\ UNCHANGED wasm

\* setValue(value)
setValue(v) == updateContent([simple EXCEPT !.originalMarkdown = v])

\* currentText.includes(sub)
includesText(s, sub) ==
    \E i \in 0..(Len(s) - Len(sub)) : Slice(s, i, i + Len(sub)) = sub

hasMarkdownStructure(currentText) ==
    \/ Includes(currentText, "#") \/ Includes(currentText, "*")
    \/ Includes(currentText, "[")
    \/ includesText(currentText, <<Backtick, Backtick, Backtick>>)
    \/ includesText(currentText, <<"-", " ">>)
    \/ includesText(currentText, <<">", " ">>)

\* handleInput with the markdown reconstructed from the container and the
\* container's textContent; looksCorrupted needs more than 100 characters,
\* which no text here has
handleInput(reconstructedMarkdown, textContent) ==
    LET currentText ==
            IF reconstructedMarkdown # <<>> THEN reconstructedMarkdown
            ELSE textContent
    IN IF hasMarkdownStructure(currentText) /\ reconstructedMarkdown # <<>>
       THEN updateContent([simple EXCEPT !.originalMarkdown = currentText])
       ELSE IF 2 * Len(currentText) < Len(simple.originalMarkdown)
            THEN updateContent(simple)
            ELSE updateContent(
                    [simple EXCEPT !.originalMarkdown =
                        IF textContent # <<>> THEN textContent ELSE @])

\* setParser(parser)
setParser(parser) ==
    IF simple.currentParser # parser
    THEN updateContent([simple EXCEPT !.currentParser = parser])
    ELSE UNCHANGED <<simple, wasm>>

\* the for await loop of updateContent takes a turn of the generator, and
\* renders when the generator has returned
updateTurn(ok, result) ==
    /\ simple.isUpdating /\ Suspended(wasm)
    /\ wasm' = wasmTurn(wasm, ok, result)
    /\ simple' = IF wasm'.pc = "done" THEN renderBlocks(simple, wasm'.yielded)
                 ELSE simple

----------------------------------------------------------------------------
(* wysiwygCommands: the format toggles and the table (wysiwyg-commands.ts) *)

MaxCmdLen == 4 \* characters of a document the commands run on
MaxRuns == 2   \* commands executed one after the other

CmdChars == {"a", "*", "\n"}

\* the documents: all over a, * and the line break, and some with a space,
\* a backtick or tildes
CmdDocs ==
    StringsUpTo(CmdChars, MaxCmdLen)
        \cup {<<"a", " ", "a">>, <<"a", " ", "*", " ", "a">>,
              <<Backtick, "a", Backtick>>, <<Backtick, "a", " ", "a", Backtick>>,
              <<"~", "~", "a", "~", "~">>, <<"a", "a", " ", "~", "a">>}

FormatTypes == <<"bold", "italic", "code", "strikethrough">>

\* MARKERS[type]
MARKERS(type) ==
    CASE type = "bold" -> <<"*", "*">>
      [] type = "italic" -> <<"*">>
      [] type = "code" -> <<Backtick>>
      [] OTHER -> <<"~", "~">>

WordChars ==
    {"1", "2", "3", "4", "C", "H", "_", "a", "b", "d", "e", "l", "r"}

\* isWordCharacter(char): the ASCII letters, the digits and the underscore,
\* of which the documents and the template hold those of WordChars
isWordCharacter(char) == char \in WordChars

\* doc.lineAt(pos) with the text of the line
docLineAt(text, pos) ==
    [from |-> lineAt(text, pos).from, to |-> lineAt(text, pos).to,
     text |-> Slice(text, lineAt(text, pos).from, lineAt(text, pos).to)]

\* the view the commands act on: the document, the main selection, what
\* the last execute returned ("true", "false", or "thrown" for a RangeError
\* of dispatch), the commands run so far and the document and selection
\* they started from
Cmd(text, anchor, head, returned, runs, start) ==
    [doc |-> text, anchor |-> anchor, head |-> head, returned |-> returned,
     runs |-> runs, origin |-> start]

selFrom(v) == Min(v.anchor, v.head)
selTo(v) == Max(v.anchor, v.head)

\* one change {from, to, insert}
Change(from, to, insert) == [from |-> from, to |-> to, insert |-> insert]

\* the changes applied, the rightmost first; their positions are those of
\* the document before
RECURSIVE changed(_, _)
changed(text, changes) ==
    IF changes = <<>> THEN text
    ELSE LET c == changes[1]
         IN changed(Slice(text, 0, c.from) \o c.insert \o SliceFrom(text, c.to),
                    Tail(changes))

\* view.dispatch({changes, selection}): a change outside the document and
\* a selection outside the new document raise a RangeError and leave the
\* view as it is
dispatch(v, changes, anchor, head) ==
    LET valid == \A i \in 1..Len(changes) :
                    /\ changes[i].from >= 0
                    /\ changes[i].from <= changes[i].to
                    /\ changes[i].to <= Len(v.doc)
        text == changed(v.doc, changes)
    IN IF valid /\ Min(anchor, head) >= 0 /\ Max(anchor, head) <= Len(text)
       THEN [v EXCEPT !.doc = text, !.anchor = anchor, !.head = head,
                      !.returned = "true"]
       ELSE [v EXCEPT !.returned = "thrown"]

\* getSelectionOrWord: the selection, or the word around the caret
RECURSIVE wordStart(_, _)
wordStart(lineText, start) ==
    IF start > 0 /\ isWordCharacter(At(lineText, start - 1))
    THEN wordStart(lineText, start - 1)
    ELSE start

RECURSIVE wordEnd(_, _)
wordEnd(lineText, end) ==
    IF end < Len(lineText) /\ isWordCharacter(At(lineText, end))
    THEN wordEnd(lineText, end + 1)
    ELSE end

getSelectionOrWord(v) ==
    IF v.anchor # v.head
    THEN [from |-> selFrom(v), to |-> selTo(v)]
    ELSE LET line == docLineAt(v.doc, v.head)
         IN [from |-> line.from + wordStart(line.text, v.head - line.from),
             to |-> line.from + wordEnd(line.text, v.head - line.from)]

\* the marker that analyzeFormatting finds at i: the two-character ones
\* first, then the one-character ones, "none" otherwise
markerAt(text, i) ==
    CASE Slice(text, i, i + 2) = MARKERS("bold") -> "bold"
      [] Slice(text, i, i + 2) = MARKERS("strikethrough") -> "strikethrough"
      [] At(text, i) = "*" -> "italic"
      [] At(text, i) = Backtick -> "code"
      [] OTHER -> "none"

\* the stack after a marker: an open one of the type is taken off,
\* otherwise the marker is pushed
toggled(stack, type) ==
    IF \E k \in 1..Len(stack) : stack[k] = type
    THEN SelectSeq(stack, LAMBDA t : t # type)
    ELSE Append(stack, type)

\* analyzeFormatting(text, from, to): the formats open at some step from
\* `from` on, while i <= to
RECURSIVE analyzeFrom(_, _, _, _, _, _)
analyzeFrom(text, from, to, i, stack, activeFormats) ==
    IF ~(i < Len(text) /\ i <= to) THEN activeFormats
    ELSE LET type == markerAt(text, i)
             next == IF type = "none" THEN i + 1 ELSE i + Len(MARKERS(type))
             st == IF type = "none" THEN stack ELSE toggled(stack, type)
         IN analyzeFrom(text, from, to, next, st,
                IF next >= from
                THEN activeFormats \cup {st[k] : k \in 1..Len(st)}
                ELSE activeFormats)

analyzeFormatting(text, from, to) == analyzeFrom(text, from, to, 0, <<>>, {})

\* findMarkersContaining(text, from, to, markerType): the pairs of the
\* marker that open before from and close after to, as <<start, end>>;
\* open is the position of the open marker, -1 for none
RECURSIVE markersFrom(_, _, _, _, _, _, _)
markersFrom(text, from, to, markerType, i, open, markers) ==
    LET m == MARKERS(markerType)
    IN IF i >= Len(text) THEN markers
       ELSE IF Slice(text, i, i + Len(m)) = m
            THEN IF open # -1
                 THEN markersFrom(text, from, to, markerType, i + Len(m), -1,
                        IF open < from /\ i + Len(m) > to
                        THEN Append(markers, <<open, i + Len(m)>>)
                        ELSE markers)
                 ELSE markersFrom(text, from, to, markerType, i + Len(m), i,
                                  markers)
            ELSE markersFrom(text, from, to, markerType, i + 1, open, markers)

findMarkersContaining(text, from, to, markerType) ==
    markersFrom(text, from, to, markerType, 0, -1, <<>>)

\* removeInnerMostFormatting: the last pair found is taken out, the
\* selection moves left by the marker; false when no pair holds it
removeInnerMostFormatting(v, markerType, from, to) ==
    LET line == docLineAt(v.doc, from)
        markers == findMarkersContaining(line.text, from - line.from,
                                         to - line.from, markerType)
        innerMost == markers[Len(markers)]
        n == Len(MARKERS(markerType))
    IN IF markers # <<>>
       THEN dispatch(v, <<Change(line.from + innerMost[2] - n,
                                 line.from + innerMost[2], <<>>),
                          Change(line.from + innerMost[1],
                                 line.from + innerMost[1] + n, <<>>)>>,
                     from - n, to - n)
       ELSE [v EXCEPT !.returned = "false"]

defaultText(markerType) ==
    CASE markerType = "bold" -> <<"b", "o", "l", "d", " ", "t", "e", "x", "t">>
      [] markerType = "italic" ->
            <<"i", "t", "a", "l", "i", "c", " ", "t", "e", "x", "t">>
      [] markerType = "code" -> <<"c", "o", "d", "e">>
      [] OTHER -> <<"s", "t", "r", "i", "k", "e", "t", "h", "r", "o", "u",
                    "g", "h", " ", "t", "e", "x", "t">>

\* addFormattingSmartly: the selection, or a default text, between two
\* markers; nothing but code inside code
addFormattingSmartly(v, markerType, from, to, context) ==
    LET selectedText == Slice(v.doc, from, to)
        marker == MARKERS(markerType)
        textToWrap == IF selectedText # <<>> THEN selectedText
                      ELSE defaultText(markerType)
    IN IF "code" \in context /\ markerType # "code"
       THEN [v EXCEPT !.returned = "false"]
       ELSE dispatch(v, <<Change(from, to, marker \o textToWrap \o marker)>>,
                     from + Len(marker),
                     IF selectedText # <<>> THEN to + Len(marker)
                     ELSE from + Len(marker) + Len(textToWrap))

\* toggleFormattingAtPosition(view, markerType)
toggleFormattingAtPosition(v, markerType) ==
    LET sel == getSelectionOrWord(v)
        line == docLineAt(v.doc, sel.from)
        context == analyzeFormatting(line.text, sel.from - line.from,
                                     sel.to - line.from)
    IN IF markerType \in context
       THEN removeInnerMostFormatting(v, markerType, sel.from, sel.to)
       ELSE addFormattingSmartly(v, markerType, sel.from, sel.to, context)

\* the template of the table command, line by line, and the empty line
\* that ends it
tableHeader ==
    <<"|", " ", "H", "e", "a", "d", "e", "r", " ", "1", " ", "|", " ", "H",
    "e", "a", "d", "e", "r", " ", "2", " ", "|", "\n">>

tableRule ==
    <<"|", "-", "-", "-", "-", "-", "-", "-", "-", "-", "-", "|", "-", "-",
    "-", "-", "-", "-", "-", "-", "-", "-", "|", "\n">>

tableRow1 ==
    <<"|", " ", "C", "e", "l", "l", " ", "1", " ", " ", " ", "|", " ", "C",
    "e", "l", "l", " ", "2", " ", " ", " ", "|", "\n">>

tableRow2 ==
    <<"|", " ", "C", "e", "l", "l", " ", "3", " ", " ", " ", "|", " ", "C",
    "e", "l", "l", " ", "4", " ", " ", " ", "|", "\n">>

tableTemplate ==
    tableHeader \o tableRule \o tableRow1 \o tableRow2 \o <<"\n">>

\* wysiwygCommands.table.execute: the template at line.to + 1, the caret
\* two characters into it
table(v) ==
    LET line == docLineAt(v.doc, selFrom(v))
        insertPos == line.to + 1
    IN dispatch(v, <<Change(insertPos, insertPos, tableTemplate)>>,
                insertPos + 2, insertPos + 2)

\* wysiwygCommands[name].execute(view)
execute(v, name) ==
    IF name = "table" THEN table(v) ELSE toggleFormattingAtPosition(v, name)

CmdInit(text, anchor, head) ==
    cmd = Cmd(text, anchor, head, "true", <<>>,
              [doc |-> text, from |-> Min(anchor, head),
               to |-> Max(anchor, head)])

CmdIdle == CmdInit(<<>>, 0, 0)

Execute(name) ==
    /\ Len(cmd.runs) < MaxRuns
    /\ cmd' = [execute(cmd, name) EXCEPT !.runs = Append(@, name)]

\* the editors of the page that a specification leaves alone
PageIdle == ViewIdle /\ WasmIdle /\ SimpleIdle /\ CmdIdle

----------------------------------------------------------------------------
(* Specifications                                                          *)

\* the Editor, written and read back
Init ==
    /\ \E d \in ParseDocs : EditorInit(d)
    /\ CodeMirrorInit(1, FALSE)
    /\ DomIdle
    /\ TaskIdle
    /\ FileIdle
    /\ ScanIdle
    /\ LoopIdle
    /\ PageIdle

Next ==
    \/ GetValue /\ UNCHANGED <<cmVars, domVars, taskVars, fileVars, scanVars, loopVars, pageVars>>
    \/ Reassign /\ UNCHANGED <<cmVars, domVars, taskVars, fileVars, scanVars, loopVars, pageVars>>

Spec == Init /\ [][Next]_vars

\* the Editor, edited block by block
InitEdit ==
    /\ \E d \in EditDocs : EditorInit(d)
    /\ CodeMirrorInit(1, FALSE)
    /\ DomIdle
    /\ TaskIdle
    /\ FileIdle
    /\ ScanIdle
    /\ LoopIdle
    /\ PageIdle

NextEdit ==
    \E from \in 0..(Len(state) - 1), to \in 0..(Len(state) - 1),
       text \in EditTexts :
        from <= to /\ Edit(from, to, text) /\ UNCHANGED <<cmVars, domVars, taskVars, fileVars, scanVars, loopVars, pageVars>>

SpecEdit == InitEdit /\ [][NextEdit]_vars

\* the CodeMirror editor
InitDeco ==
    /\ EditorInit(<<>>)
    /\ \E d \in 1..Len(Docs), w \in BOOLEAN : CodeMirrorInit(d, w)
    /\ DomIdle
    /\ TaskIdle
    /\ FileIdle
    /\ ScanIdle
    /\ LoopIdle
    /\ PageIdle

NextDeco ==
    \/ \E from \in 0..MaxOffset, to \in 0..MaxOffset :
            Select(from, to) /\ UNCHANGED <<editorVars, domVars, taskVars, fileVars, scanVars, loopVars, pageVars>>
    \/ \E d \in 1..Len(Docs), atEnd \in BOOLEAN :
            SetContent(d, atEnd) /\ UNCHANGED <<editorVars, domVars, taskVars, fileVars, scanVars, loopVars, pageVars>>
    \/ \E enabled \in BOOLEAN :
            setWysiwygMode(enabled) /\ UNCHANGED <<editorVars, domVars, taskVars, fileVars, scanVars, loopVars, pageVars>>

SpecDeco == InitDeco /\ [][NextDeco]_vars

\* the caret of the Editor, set and read back
InitOffset ==
    /\ EditorInit(<<>>)
    /\ CodeMirrorInit(1, FALSE)
    /\ \E els \in DomDocs : DomInit(els)
    /\ TaskIdle
    /\ FileIdle
    /\ ScanIdle
    /\ LoopIdle
    /\ PageIdle

NextOffset ==
    \/ \E b \in 1..(Len(element) + 1), offset \in -1..(DomLength + 2) :
            SetOffset(b, offset) /\ UNCHANGED <<editorVars, cmVars, taskVars, fileVars, scanVars, loopVars, pageVars>>
    \/ ReadOffset /\ UNCHANGED <<editorVars, cmVars, taskVars, fileVars, scanVars, loopVars, pageVars>>

SpecOffset == InitOffset /\ [][NextOffset]_vars

\* one click on a checkbox of a document of task lists
InitTask ==
    /\ EditorInit(<<>>)
    /\ CodeMirrorInit(1, FALSE)
    /\ DomIdle
    /\ \E bs \in TaskDocs : TaskInit(bs)
    /\ FileIdle
    /\ ScanIdle
    /\ LoopIdle
    /\ PageIdle

NextTask ==
    \/ \E list \in taskLists, taskIndex \in 0..(MaxTaskLines - 1) :
            ClickCheckbox(list, taskIndex)
                /\ UNCHANGED <<editorVars, cmVars, domVars, fileVars, scanVars, loopVars, pageVars>>
    \/ \E pos \in 0..Len(taskDoc) :
            ClickTaskLine(pos) /\ UNCHANGED <<editorVars, cmVars, domVars, fileVars, scanVars, loopVars, pageVars>>

SpecTask == InitTask /\ [][NextTask]_vars

\* the page: files opened, edited and saved, the handlers interleaved
InitFile ==
    /\ EditorInit(<<>>)
    /\ CodeMirrorInit(1, FALSE)
    /\ DomIdle
    /\ TaskIdle
    /\ \E disk \in [Files -> FileTexts], content \in FileTexts :
            FileInit(disk, content)
    /\ ScanIdle
    /\ LoopIdle
    /\ PageIdle

FileStep(A) ==
    A /\ UNCHANGED <<editorVars, cmVars, domVars, taskVars, scanVars, loopVars, pageVars>>

NextFile ==
    \/ \E content \in FileTexts : FileStep(updateListener(content))
    \/ \E fileHandle \in Files : FileStep(openFile(fileHandle))
    \/ FileStep(handleFileOpened)
    \/ FileStep(saveFile)
    \/ FileStep(saveFileWrite)
    \/ FileStep(handleFileSaved)

SpecFile == InitFile /\ [][NextFile]_vars

\* parseInline over one text
InitInline ==
    /\ EditorInit(<<>>)
    /\ CodeMirrorInit(1, FALSE)
    /\ DomIdle
    /\ TaskIdle
    /\ FileIdle
    /\ \E text \in InlineTexts : ScanInit(text)
    /\ LoopIdle
    /\ PageIdle

NextInline ==
    parseInlineTurn
        /\ UNCHANGED <<editorVars, cmVars, domVars, taskVars, fileVars, loopVars, pageVars>>

SpecInline == InitInline /\ [][NextInline]_vars

\* the loops of parseInline, parseBlock and getNewState, each run to its end
InitHalt ==
    /\ EditorInit(<<>>)
    /\ CodeMirrorInit(1, FALSE)
    /\ DomIdle
    /\ TaskIdle
    /\ FileIdle
    /\ ScanIdle
    /\ LoopIdle
    /\ PageIdle

\* nothing was called yet
NotCalled ==
    /\ scan.string = <<>> /\ blockGen.lines = <<>>
    /\ loop.block = Undefined /\ loop.at = -1

\* a call of parseInline, parseBlock or getNewState
CallInline(text) ==
    scan' = Scan(text, 0, <<>>, 0, "none") /\ UNCHANGED loopVars

CallBlock(lines) ==
    blockGen' = BlockGen(lines, 0, -1) /\ UNCHANGED <<scan, loop>>

CallGetNewState(oldState, from, to, text) ==
    /\ Len(newLinesOf(oldState, from, to, text)) <= MaxNewLines
    /\ loop' = restarted(loopContext(oldState, from, to, text), 0, 0, <<>>, -1)
    /\ UNCHANGED <<scan, blockGen>>

HaltStep(A) ==
    A /\ UNCHANGED <<editorVars, cmVars, domVars, taskVars, fileVars, pageVars>>

NextHalt ==
    \/ NotCalled /\ \E text \in HaltTexts : HaltStep(CallInline(text))
    \/ NotCalled /\ \E d \in BlockDocs : HaltStep(CallBlock(Split(d)))
    \/ /\ NotCalled
       /\ \E d \in EditDocs, text \in EditTexts :
            \E from \in 0..(Len(parseBlockString(d)) - 1) :
              \E to \in from..(Len(parseBlockString(d)) - 1) :
                 HaltStep(CallGetNewState(parseBlockString(d), from, to, text))
    \/ HaltStep(parseInlineTurn /\ UNCHANGED loopVars)
    \/ HaltStep(parseBlockTurn /\ UNCHANGED <<scan, loop>>)
    \/ HaltStep(getNewStateTurn /\ UNCHANGED <<scan, blockGen>>)

\* the turn of the loop that was called
LoopTurn ==
    \/ HaltStep(parseInlineTurn /\ UNCHANGED loopVars)
    \/ HaltStep(parseBlockTurn /\ UNCHANGED <<scan, loop>>)
    \/ HaltStep(getNewStateTurn /\ UNCHANGED <<scan, blockGen>>)

\* a turn can be taken: by the guards of the three turns, in the states where
\* a loop has not ended
TurnEnabled ==
    \/ scan.index < Len(scan.string)
    \/ blockGen.index < Len(blockGen.lines)
    \/ loop.block # Undefined

\* weak fairness of the turns, a loop that can take a turn takes it: the
\* turn is infinitely often not enabled or infinitely often taken
FairTurns == []<>(~TurnEnabled) \/ []<><<LoopTurn>>_vars

SpecHalt == InitHalt /\ [][NextHalt]_vars /\ FairTurns

\* the Editor over documents of the lines the block rules tell apart
InitBlock ==
    /\ \E d \in BlockDocs : EditorInit(d)
    /\ CodeMirrorInit(1, FALSE)
    /\ DomIdle
    /\ TaskIdle
    /\ FileIdle
    /\ ScanIdle
    /\ LoopIdle
    /\ PageIdle

SpecBlock == InitBlock /\ [][Next]_vars

\* the Editor's element over assignments of state arrays
InitView ==
    /\ EditorInit(<<>>)
    /\ CodeMirrorInit(1, FALSE)
    /\ DomIdle
    /\ TaskIdle
    /\ FileIdle
    /\ ScanIdle
    /\ LoopIdle
    /\ \E next \in StateArrays : ViewInit(next)
    /\ WasmIdle
    /\ SimpleIdle
    /\ CmdIdle

\* the variables of the parsers and of the CodeMirror page
restVars == <<editorVars, cmVars, domVars, taskVars, fileVars, scanVars, loopVars>>

ViewStep(A) ==
    A /\ UNCHANGED <<restVars, wasm, simple, cmd>>

NextView ==
    \/ \E next \in StateArrays : ViewStep(SetState(next, FALSE))
    \/ ViewStep(SetState(view._state, TRUE))

SpecView == InitView /\ [][NextView]_vars

\* parseMarkdownWasm, consumed to its end
InitWasm ==
    /\ EditorInit(<<>>)
    /\ CodeMirrorInit(1, FALSE)
    /\ DomIdle
    /\ TaskIdle
    /\ FileIdle
    /\ ScanIdle
    /\ LoopIdle
    /\ ViewIdle
    /\ WasmIdle
    /\ SimpleIdle
    /\ CmdIdle

NextWasm ==
    \/ \E input \in SimpleTexts \cup EditTexts :
          CallWasm(input) /\ UNCHANGED <<restVars, view, simple, cmd>>
    \/ WasmTurn /\ UNCHANGED <<restVars, view, simple, cmd>>

SpecWasm == InitWasm /\ [][NextWasm]_vars

\* SimpleEditor under calls of setValue, input events and setParser
NextSimple ==
    \/ \E v \in SimpleTexts : setValue(v) /\ UNCHANGED <<restVars, view, cmd>>
    \/ \E r, t \in SimpleTexts : handleInput(r, t) /\ UNCHANGED <<restVars, view, cmd>>
    \/ \E parser \in {"regex", "wasm"} :
          setParser(parser) /\ UNCHANGED <<restVars, view, cmd>>
    \/ \E ok \in BOOLEAN, result \in parse_markdown(wasm.input) :
          updateTurn(ok, result) /\ UNCHANGED <<restVars, view, cmd>>

SpecSimple == InitWasm /\ [][NextSimple]_vars

\* the commands on a document with a selection
InitCmd ==
    /\ EditorInit(<<>>)
    /\ CodeMirrorInit(1, FALSE)
    /\ DomIdle
    /\ TaskIdle
    /\ FileIdle
    /\ ScanIdle
    /\ LoopIdle
    /\ ViewIdle
    /\ WasmIdle
    /\ SimpleIdle
    /\ \E text \in CmdDocs :
          \E anchor, head \in 0..Len(text) : CmdInit(text, anchor, head)

CommandNames == {"bold", "italic", "code", "strikethrough", "table"}

NextCmd ==
    \E name \in CommandNames :
        Execute(name) /\ UNCHANGED <<restVars, view, wasm, simple>>

SpecCmd == InitCmd /\ [][NextCmd]_vars

----------------------------------------------------------------------------
(* Properties of the Editor, written and read back (Spec)                  *)

\* the leaves of a content list, in order, with no separator
RECURSIVE Leaves(_)
Leaves(list) ==
    IF list = <<>> THEN <<>>
    ELSE (IF IsStr(Head(list)) THEN Head(list).text
          ELSE Leaves(Head(list).content))
         \o Leaves(Tail(list))

\* the type and the line span of every block, in order
TypesAndSpans(blocks) ==
    [j \in 1..Len(blocks) |-> <<blocks[j].type, lengthOr1(blocks[j])>>]

\* the 0-based line at which block j of blocks starts
RECURSIVE StartLine(_, _)
StartLine(blocks, j) ==
    IF j = 1 THEN 0
    ELSE StartLine(blocks, j - 1) + lengthOr1(blocks[j - 1])

\* the lines of the document the Editor was given
ValueLines == Split(value)

\* the source lines block j of the state consumed
Consumed(j) ==
    SubSeq(ValueLines, StartLine(state, j) + 1,
           Min(StartLine(state, j) + lengthOr1(state[j]), Len(ValueLines)))

StartsWithFence(line) == Len(line) >= 3 /\ SubSeq(line, 1, 3) = Fence

\* a line starting with three backticks lies strictly after 0-based line n
FenceAfter(lines, n) ==
    \E k \in (n + 2)..Len(lines) : StartsWithFence(lines[k])

\* the 0-based index of the first such line
FirstFenceAfter(lines, n) ==
    CHOOSE k \in (n + 1)..(Len(lines) - 1) :
        /\ StartsWithFence(lines[k + 1])
        /\ \A h \in (n + 1)..(k - 1) : ~StartsWithFence(lines[h + 1])

\* C1: for every document d, reading Editor.value after `Editor.value = d`
\* (serializeState(parseBlock(d), true)) returns exactly d.
C1_RoundTrip == op.name = "get" => out = value

\* C4: the leaves of parseInline(text) concatenate to text, for every line
\* of the document, and the leaves of the content of every block that
\* parseBlock yields concatenate to the lines the block consumed joined by
\* "\n".
C4_LeavesAreSource ==
    /\ \A k \in 1..Len(ValueLines) :
            Leaves(parseInline(ValueLines[k])) = ValueLines[k]
    /\ \A j \in 1..Len(state) :
            Leaves(state[j].content) = Join(Consumed(j), <<"\n">>)

\* C9: a line starting with three backticks with no such line after it is
\* never yielded as a code_block: it is classified by the rules below the
\* fence rule, with span 1; and a code_block is yielded only at a line
\* starting with three backticks that has such a line strictly after it,
\* its span running to the first of them.
C9_Fences ==
    \A j \in 1..Len(state) :
        /\ (/\ StartsWithFence(ValueLines[StartLine(state, j) + 1])
            /\ ~FenceAfter(ValueLines, StartLine(state, j)))
           => /\ state[j].type # "code_block"
              /\ lengthOr1(state[j]) = 1
              /\ state[j] = orParagraph(firstParser(Tail(parsers), ValueLines,
                                                    StartLine(state, j),
                                                    FALSE))
        /\ state[j].type = "code_block"
           => /\ StartsWithFence(ValueLines[StartLine(state, j) + 1])
              /\ FenceAfter(ValueLines, StartLine(state, j))
              /\ state[j].length
                    = FirstFenceAfter(ValueLines, StartLine(state, j))
                        - StartLine(state, j) + 1

\* a code block has been yielded, and after it a fence that nothing closes
C9_Reached ==
    /\ Len(state) >= 2
    /\ state[1].type = "code_block"
    /\ StartsWithFence(ValueLines[Len(ValueLines)])
    /\ state[Len(state)].type = "paragraph"

\* C10: parsing the text that serializing parseBlock(d) gives yields the
\* block types and line spans of parseBlock(d), in the same order.
C10_ReparseSame ==
    op.name = "set" => TypesAndSpans(state) = TypesAndSpans(prev)

----------------------------------------------------------------------------
(* Properties of the Editor, edited block by block (SpecEdit)              *)

\* the lines the last edit asked for: those before the edited blocks, the
\* replacement lines, those after
EditedLines == newLinesOf(prev, op.from, op.to, op.text)

\* C2: after the edits, the state is equivalent to a full parse of the new
\* text: its blocks serialize to the lines before the edit, the replacement
\* lines and the lines after it, with the block types and line spans of
\* parseBlock over those lines; no reused block differs from the new text
\* at its position.
C2_FullParse ==
    op.name = "edit" =>
        /\ blockLines(state) = EditedLines
        /\ TypesAndSpans(state) = TypesAndSpans(parseBlock(EditedLines, FALSE))
        /\ state = parseBlock(EditedLines, FALSE)

\* the last edit was applied to a state that parseBlock produces, and
\* replaced one paragraph block by one line that parseBlock, given that line
\* alone, yields as a paragraph
ParagraphEdit ==
    /\ op.name = "edit" /\ op.from = op.to
    /\ prev = parseBlock(blockLines(prev), FALSE)
    /\ prev[op.from + 1].type = "paragraph"
    /\ ~Includes(op.text, "\n")
    /\ TypesAndSpans(parseBlockString(op.text)) = <<<<"paragraph", 1>>>>

\* the state has the length it had, and every block but the edited one is
\* the object it was
OthersKept ==
    /\ Len(state) = Len(prev)
    /\ \A j \in 1..Len(state) : j # op.from + 1 => origin[j] = j

----------------------------------------------------------------------------
(* Properties of the CodeMirror editor (SpecDeco)                          *)

Tree == Docs[doc].nodes
BaseTree == Docs[doc].base

\* the cursor range is contained in the node, its ends included
Contains(node) == cursor.from >= node.from /\ cursor.to <= node.to

\* the number of replace decorations of a field over the range of a node
Replaced(field, node) ==
    Cardinality({k \in 1..Len(field) :
                    /\ field[k].kind = "replace"
                    /\ field[k].from = node.from /\ field[k].to = node.to})

\* the bullet lists whose text holds a task line "- [ ]", "- [x]" or "- [X]"
TaskListNodes == TaskLists(doc)

\* the composite nodes of each block planner, with the tree and the field of
\* the planner
Planners ==
    {[tree |-> Tree, field |-> tableField,
      nodes |-> {i \in 1..Len(Tree) : Tree[i].name = "Table"}],
     [tree |-> Tree, field |-> codeField,
      nodes |-> {i \in 1..Len(Tree) : Tree[i].name = "FencedCode"}],
     [tree |-> Tree, field |-> taskField, nodes |-> TaskListNodes],
     [tree |-> BaseTree, field |-> blockField,
      nodes |-> {i \in 1..Len(BaseTree) :
                    BaseTree[i].name \in {"Table", "Blockquote",
                                          "FencedCode"}}]}

\* composite node i of the planner lies under a composite node of the same
\* planner that contains the cursor
UnderFocused(p, i) ==
    \E a \in Ancestors(p.tree, i) \cap p.nodes : Contains(p.tree[a])

InlineElements ==
    {"Emphasis", "StrongEmphasis", "Strikethrough", "InlineCode", "Link"}

Children(i) == {k \in 1..Len(Tree) : Tree[k].parent = i}

\* the marker children of a node: EmphasisMark, StrikethroughMark, CodeMark,
\* LinkMark
MarkerChildren(i) ==
    {k \in Children(i) :
        Tree[k].name \in {"EmphasisMark", "StrikethroughMark", "CodeMark",
                          "LinkMark"}}

\* the offsets of a node that none of its children covers
InnerText(i) ==
    {x \in Tree[i].from..(Tree[i].to - 1) :
        \A k \in Children(i) : x < Tree[k].from \/ x >= Tree[k].to}

Hidden == {k \in 1..Len(decorations) :
                decorations[k].class = decorationHidden}

\* a hidden decoration covers the offsets from..to-1
HiddenOver(from, to) ==
    \E k \in Hidden : decorations[k].from <= from /\ to <= decorations[k].to

\* C6: without WYSIWYG, an inline element that does not contain the cursor
\* has each marker child hidden and no offset of its inner text hidden; one
\* that contains the cursor has no hidden decoration within it.
C6_InlineMarkers ==
    ~wysiwygMode =>
        \A i \in 1..Len(Tree) : Tree[i].name \in InlineElements =>
            IF Contains(Tree[i])
            THEN \A k \in Hidden :
                    decorations[k].to <= Tree[i].from
                        \/ decorations[k].from >= Tree[i].to
            ELSE /\ \A k \in MarkerChildren(i) :
                        HiddenOver(Tree[k].from, Tree[k].to)
                 /\ \A x \in InnerText(i) : ~HiddenOver(x, x + 1)

MarkerNames ==
    {"HeaderMark", "EmphasisMark", "StrikethroughMark", "CodeMark",
     "LinkMark", "QuoteMark", "TaskMarker", "TableDelimiter"}

\* what the editor hides or replaces: the hidden and bullet marks of the
\* plugin and the widgets of the table and code fields
HiddenOrReplaced(marks, tables, codes) ==
    {marks[k] : k \in {h \in 1..Len(marks) :
                          marks[h].class \in {decorationHidden,
                                              decorationBullet}}}
        \cup {tables[k] : k \in 1..Len(tables)}
        \cup {codes[k] : k \in 1..Len(codes)}

Carets == {Cursor(x, x) : x \in 0..Len(Docs[doc].text)}

\* C7: with the WYSIWYG switch on, what is hidden or replaced is the same
\* for every caret: every marker node is hidden, every marker of a bullet
\* list is replaced by the bullet, and every Table and FencedCode is
\* replaced by its widget wherever the caret is.
C7_WysiwygIgnoresCaret ==
    wysiwygMode =>
        /\ \A i \in 1..Len(Tree) :
            /\ Tree[i].name \in MarkerNames
                => HiddenOver(Tree[i].from, Tree[i].to)
            /\ (Tree[i].name = "ListMark"
                    /\ matchContext(Tree, i, <<"BulletList", "ListItem">>))
                => \E k \in 1..Len(decorations) :
                        decorations[k]
                            = Range("mark", decorationBullet, Tree[i].from,
                                    Tree[i].to)
            /\ Tree[i].name = "Table" => Replaced(tableField, Tree[i]) = 1
            /\ Tree[i].name = "FencedCode" => Replaced(codeField, Tree[i]) = 1
        /\ \A c \in Carets :
            HiddenOrReplaced(decorations, tableField, codeField)
                = HiddenOrReplaced(process(doc, c, TRUE),
                                   replaceTableBlocks(doc, c),
                                   replaceCodeBlocks(doc, c))

SortedByStart(ranges) ==
    \A k \in 1..(Len(ranges) - 1) : ranges[k].from <= ranges[k + 1].from

Overlap(a, b) == a.from < b.to /\ b.from < a.to

Nested(a, b) ==
    \/ a.from <= b.from /\ b.to <= a.to
    \/ b.from <= a.from /\ a.to <= b.to

\* the ranges of the plan, each with the list it is in and its place there
PlanRanges ==
    {<<"marks", k, decorations[k]>> : k \in 1..Len(decorations)}
        \cup {<<"tables", k, tableField[k]>> : k \in 1..Len(tableField)}
        \cup {<<"codes", k, codeField[k]>> : k \in 1..Len(codeField)}

C11_PlansAreCurrent ==
    /\ decorations = process(doc, cursor, wysiwygMode)
    /\ tableField = replaceTableBlocks(doc, cursor)
    /\ codeField = replaceCodeBlocks(doc, cursor)
    /\ taskLineField = createTaskLineDecorations(doc)

\* a selection change has just been handled in a document whose plans are
\* not empty and depend on the caret
C11_Reached ==
    /\ tr.selectionSet
    /\ cursor.from > 0
    /\ taskLineField # <<>>
    /\ decorations # process(doc, Cursor(0, 0), wysiwygMode)

----------------------------------------------------------------------------
(* Properties of the caret (SpecOffset)                                    *)

\* the block the caret was set in
CaretBlock == element[caret.block]

\* the offset falls strictly inside a data-text leaf of the block
InsideAtom(el, k) ==
    \E n \in 1..Len(iterateNodes(el)) :
        LET start == textLength(SubSeq(iterateNodes(el), 1, n - 1))
        IN  /\ iterateNodes(el)[n].kind = "atom"
            /\ start < k
            /\ k < start + Len(iterateNodes(el)[n].text)

\* the caret was set at an offset of its block that is not inside an atom
CaretInBlock ==
    /\ caret.block \in 1..Len(element)
    /\ caret.offset \in 0..textLength(iterateNodes(CaretBlock))
    /\ ~InsideAtom(CaretBlock, caret.offset)

\* C12: for every block of text leaves and data-text leaves and every offset
\* k from 0 to the length of its text that is not strictly inside a
\* data-text leaf, getOffset of the position getOffsetPosition(block, k)
\* gives is k, and the position lies in that block.
C12_OffsetRoundTrip ==
    CaretInBlock =>
        /\ selection.block = caret.block
        /\ caret.read => offsetRead = caret.offset

\* C15: for every integer offset getOffsetPosition gives a position: the
\* start of the block for a negative offset, the end of the document for an
\* offset past the end of the last block.
C15_OffsetClamped ==
    caret.block \in 1..Len(element) =>
        /\ caret.offset < 0 => selection = Position(caret.block, <<>>, 0)
        /\ caret.offset > DomLength =>
                /\ selection.block = Len(element)
                /\ getOffset(element[Len(element)], selection.node,
                             selection.offset)
                       = textLength(iterateNodes(element[Len(element)]))

----------------------------------------------------------------------------
(* Properties of the clicks on tasks (SpecTask)                            *)

\* the offset in source of its line n
RECURSIVE lineFrom(_, _)
lineFrom(lines, n) ==
    IF n = 1 THEN 0 ELSE lineFrom(lines, n - 1) + Len(lines[n - 1]) + 1

\* the offset in the document of the check state of the clicked task
ClickedMark ==
    LET source == Slice(click.before, click.from, click.to)
        lines == Split(source)
        n == IF click.kind = "widget"
             THEN taskLineFrom(lines, 1, click.taskIndex)
             ELSE 1
    IN  click.from + lineFrom(lines, n) + taskMatch(lines[n]).mark

\* C13: a click on the checkbox of a task toggles the check state of that
\* task's line and leaves every other character of the document as it was,
\* also when the text of the task list occurs more than once.
C13_ToggleOnlyClicked ==
    click.kind # "none" =>
        /\ Len(taskDoc) = Len(click.before)
        /\ \A i \in 0..(Len(taskDoc) - 1) :
                At(taskDoc, i) =
                    IF i = ClickedMark
                    THEN newCheckState(At(click.before, i))
                    ELSE At(click.before, i)

----------------------------------------------------------------------------
(* Properties of the page (SpecFile)                                       *)

\* C14: whenever a file is open and isDirty is false, the content of the
\* editor is the content last read from or written to that file, whatever
\* the interleaving of edits with a save in flight.
C14_CleanMeansSaved ==
    (currentFile # 0 /\ ~isDirty) => editorContent = files[currentFile]

----------------------------------------------------------------------------
(* Properties of the reconciler, block by block (SpecEdit)                 *)

\* the lines before the edited blocks, the replacement lines, and by how
\* many lines the edit moves the lines after it
LinesBefore == Len(blockLines(SubSeq(prev, 1, op.from)))
LinesOfText == Len(Split(op.text))
LinesMoved ==
    LinesOfText - sumLengths(SubSeq(prev, op.from + 1, op.to + 1))

\* block j of the result covers a line of the edited zone
CoversZone(j) ==
    /\ StartLine(state, j) + lengthOr1(state[j]) - 1 >= LinesBefore
    /\ StartLine(state, j) < LinesBefore + LinesOfText

\* the old block that starts at the old line of the line at which block j of
\* the result starts, 0 when no old block starts there
OldBlockAt(j) ==
    findOld(prev, IF StartLine(state, j) < LinesBefore
                  THEN StartLine(state, j)
                  ELSE StartLine(state, j) - LinesMoved)

\* C16: outside the edited zone the result holds the old block itself where
\* an old block starts at the corresponding old line with the type of the
\* type-only pre-parsed new block, and a freshly parsed block elsewhere;
\* every block covering lines of the edited zone is freshly parsed.
C16_ReuseByTypeAndOffset ==
    op.name = "edit" =>
        \A j \in 1..Len(state) :
            IF CoversZone(j) THEN origin[j] = 0
            ELSE IF /\ OldBlockAt(j) # 0
                    /\ prev[OldBlockAt(j)].type
                           = blockAt(EditedLines, StartLine(state, j),
                                     TRUE).type
            THEN origin[j] = OldBlockAt(j)
            ELSE /\ origin[j] = 0
                 /\ state[j] = blockAt(EditedLines, StartLine(state, j), FALSE)

----------------------------------------------------------------------------
(* Links                                                                   *)

\* the index of the first c of string at or after index n, -1 when none
RECURSIVE FirstAt(_, _, _)
FirstAt(string, n, c) ==
    IF n >= Len(string) THEN -1
    ELSE IF At(string, n) = c THEN n
    ELSE FirstAt(string, n + 1, c)

\* the "]" that ends the text of a link opened at i, the ")" that ends its url
LinkBracket(string, i) == FirstAt(string, i + 1, "]")
LinkPar(string, i) == FirstAt(string, LinkBracket(string, i) + 2, ")")
LinkText(string, i) == Slice(string, i + 1, LinkBracket(string, i))
LinkUrl(string, i) ==
    Slice(string, LinkBracket(string, i) + 2, LinkPar(string, i))

\* "[" text "]" "(" url ")" at i, text and url not empty, no "[" in text and
\* no "(" in url
IsLinkAt(string, i) ==
    /\ At(string, i) = "["
    /\ LinkBracket(string, i) # -1
    /\ LinkText(string, i) # <<>>
    /\ ~Includes(LinkText(string, i), "[")
    /\ At(string, LinkBracket(string, i) + 1) = "("
    /\ LinkPar(string, i) # -1
    /\ LinkUrl(string, i) # <<>>
    /\ ~Includes(LinkUrl(string, i), "(")

\* C17: a turn of parseInline that starts at a "[" yields a link node only
\* when "[" text "]" "(" url ")" stands there with text and url not empty, no
\* "[" in text and no "(" in url; the node is then ["[", text, "]", "(", url,
\* ")"] with url the source between the parentheses, and the scan goes on
\* right after the closing ")"
C17_LinkOnlyWhenWellFormed ==
    scan.by = "link" =>
        /\ IsLinkAt(scan.string, scan.at)
        /\ scan.tokens[Len(scan.tokens)] =
               Node("link", <<Str(<<"[">>), Str(LinkText(scan.string, scan.at)),
                              Str(<<"]">>), Str(<<"(">>),
                              Str(LinkUrl(scan.string, scan.at)), Str(<<")">>)>>)
        /\ scan.index = LinkPar(scan.string, scan.at) + 1

\* the links whose text holds no ")" are as C17 says
LinkWithoutParInText ==
    scan.by = "link" /\ ~Includes(LinkText(scan.string, scan.at), ")") =>
        /\ IsLinkAt(scan.string, scan.at)
        /\ scan.index = LinkPar(scan.string, scan.at) + 1

\* every well-formed link whose text holds no ")" is taken as a link
WellFormedIsLink ==
    /\ scan.by # "none"
    /\ IsLinkAt(scan.string, scan.at)
    /\ ~Includes(LinkText(scan.string, scan.at), ")")
    => scan.by = "link"

----------------------------------------------------------------------------
(* Symmetric markers                                                       *)

Markers ==
    {<<"*", "*">>, <<"_", "_">>, <<"*">>, <<"_">>, <<"~", "~">>, <<"~">>,
     <<":", ":">>, <<Backtick>>}

MarkerType(m) ==
    CASE m \in {<<"*", "*">>, <<"_", "_">>} -> "strong"
      [] m \in {<<"*">>, <<"_">>} -> "em"
      [] m = <<"~", "~">> -> "strikethrough"
      [] m = <<"~">> -> "underline"
      [] m = <<":", ":">> -> "mark"
      [] m = <<Backtick>> -> "code"

StandsAt(string, i, m) == Slice(string, i, i + Len(m)) = m

\* where m stands again after the opening m of i, behind a character that is
\* not whitespace
Closers(string, i, m) ==
    {n \in (i + Len(m))..(Len(string) - 1) :
        StandsAt(string, n, m) /\ ~WHITESPACE(At(string, n - 1))}

NearestCloser(string, i, m) ==
    IF Closers(string, i, m) = {} THEN -1
    ELSE CHOOSE n \in Closers(string, i, m) :
            \A k \in Closers(string, i, m) : n <= k

LastToken == scan.tokens[Len(scan.tokens)]

\* the last turn made a node of marker m
NodeOf(m) ==
    /\ scan.by = MarkerType(m)
    /\ LastToken.content[1] = Str(m)
    /\ LastToken.content[Len(LastToken.content)] = Str(m)

\* the last turn appended the character it started at to the plain-text run
TextTurn ==
    /\ scan.by = "text"
    /\ scan.index = scan.at + 1
    /\ IsStr(LastToken)
    /\ LastToken.text[Len(LastToken.text)] = At(scan.string, scan.at)

\* what C18 says of marker m standing where the last turn started
MarkerAsClaimed(m) ==
    /\ NodeOf(m) =>
          /\ scan.at + Len(m) < Len(scan.string)
          /\ ~WHITESPACE(At(scan.string, scan.at + Len(m)))
          /\ NearestCloser(scan.string, scan.at, m) # -1
          /\ scan.index = NearestCloser(scan.string, scan.at, m) + Len(m)
    /\ NearestCloser(scan.string, scan.at, m) = -1 => TextTurn

\* C18: where a symmetric marker stands at the scan position, a node of that
\* marker is made only if the character after the opening marker exists and
\* is not whitespace, and it closes at the nearest later occurrence of the
\* marker whose preceding character is not whitespace; if there is no such
\* occurrence the turn appends to the plain-text run and the scan goes on
C18_MarkerClosesAtNearest ==
    scan.by # "none" =>
        \A m \in Markers :
            StandsAt(scan.string, scan.at, m) => MarkerAsClaimed(m)

\* C18 holds of a marker that stands alone: no other marker stands there
MarkerAloneAsClaimed ==
    scan.by # "none" =>
        \A m \in Markers :
            /\ StandsAt(scan.string, scan.at, m)
            /\ \A o \in Markers \ {m} : ~StandsAt(scan.string, scan.at, o)
            => MarkerAsClaimed(m)

----------------------------------------------------------------------------
(* The order of the inline recognisers                                     *)

RecogniserOrder ==
    <<"link", "strong", "em", "strikethrough", "underline", "mark",
      "reference", "code", "file", "image", "tag">>

\* recogniser k of the order returns true where the last turn started
SucceedsAt(k) == tryInline(RecogniserOrder[k], scan.string, scan.at).ok

\* the text scanned whole is the one node of this type and these strings
OneNode(type, open, inner, close) ==
    /\ scan.tokens = <<Node(type, <<Str(open), Str(inner), Str(close)>>)>>
    /\ scan.index = Len(scan.string)

\* C19: every turn of parseInline takes the first recogniser that succeeds in
\* the order link, strong, emphasis, strikethrough, underline, mark,
\* reference, code, file, image, tag, and plain text when none does; "**a**"
\* is one strong node, "~~a~~" one strikethrough node, and the content of a
\* code node is the source between the backquotes as one string
C19_FirstRecogniserWins ==
    scan.by # "none" =>
        /\ \/ scan.by = "text" /\ \A k \in 1..Len(RecogniserOrder) : ~SucceedsAt(k)
           \/ \E k \in 1..Len(RecogniserOrder) :
                /\ scan.by = RecogniserOrder[k]
                /\ SucceedsAt(k)
                /\ \A j \in 1..(k - 1) : ~SucceedsAt(j)
                /\ LastToken = tryInline(scan.by, scan.string, scan.at).token
                /\ scan.index = tryInline(scan.by, scan.string, scan.at).next
        /\ scan.string = <<"*", "*", "a", "*", "*">> =>
                OneNode("strong", <<"*", "*">>, <<"a">>, <<"*", "*">>)
        /\ scan.string = <<"~", "~", "a", "~", "~">> =>
                OneNode("strikethrough", <<"~", "~">>, <<"a">>, <<"~", "~">>)
        /\ scan.by = "code" =>
                LastToken.content =
                    <<Str(<<Backtick>>),
                      Str(Slice(scan.string, scan.at + 1, scan.index - 1)),
                      Str(<<Backtick>>)>>

\* "**a**" scanned whole: the turn took strong where emphasis succeeds too
C19_Reached ==
    /\ scan.string = <<"*", "*", "a", "*", "*">>
    /\ scan.by = "strong"
    /\ tryInline("em", scan.string, scan.at).ok
    /\ scan.index = Len(scan.string)

----------------------------------------------------------------------------
(* The order of the block rules                                            *)

RuleOrder ==
    <<"code_block", "heading", "horizontal_rule", "todo_item",
      "ordered_list_item", "unordered_list_item", "blockquote", "paragraph">>

\* the rule of this type matches line index of lines
RuleMatches(type, lines, index) ==
    CASE type = "code_block" ->
            OPEN(lines[index + 1]).ok /\ findClosingLine(lines, index) # -1
      [] type = "heading" -> HEADING(lines[index + 1]).ok
      [] type = "horizontal_rule" -> HR(lines[index + 1]).ok
      [] type = "todo_item" -> TODO_ITEM(lines[index + 1]).ok
      [] type = "ordered_list_item" -> ORDERED_ITEM(lines[index + 1]).ok
      [] type = "unordered_list_item" -> UNORDERED_ITEM(lines[index + 1]).ok
      [] type = "blockquote" -> BLOCKQUOTE(lines[index + 1]).ok
      [] type = "paragraph" -> TRUE

\* rule k is the first of the order that matches the line
FirstRule(k, lines, index) ==
    /\ RuleMatches(RuleOrder[k], lines, index)
    /\ \A j \in 1..(k - 1) : ~RuleMatches(RuleOrder[j], lines, index)

\* C20: every block parseBlock yields has the type of the first rule, in the
\* order code_block, heading, horizontal_rule, todo_item, ordered_list_item,
\* unordered_list_item, blockquote, paragraph, that matches the line the
\* block starts at; "- [ ] a" is a todo_item, "---" and "***" are
\* horizontal rules
C20_FirstRuleWins ==
    /\ \A j \in 1..Len(state) :
          \E k \in 1..Len(RuleOrder) :
              /\ state[j].type = RuleOrder[k]
              /\ FirstRule(k, ValueLines, StartLine(state, j))
    /\ value = <<"-", " ", "[", " ", "]", " ", "a">> =>
          Len(state) = 1 /\ state[1].type = "todo_item"
    /\ value \in {<<"-", "-", "-">>, <<"*", "*", "*">>} =>
          Len(state) = 1 /\ state[1].type = "horizontal_rule"

\* a todo item parsed where the unordered list rule matches too, next to a
\* horizontal rule of stars
C20_Reached ==
    /\ ValueLines = <<<<"-", " ", "[", " ", "]", " ", "a">>, <<"*", "*", "*">>>>
    /\ state[1].type = "todo_item"
    /\ RuleMatches("unordered_list_item", ValueLines, 0)
    /\ state[2].type = "horizontal_rule"

----------------------------------------------------------------------------
(* Todo items                                                              *)

\* the line is whitespace, "- [", a blank or an x of either case, "] ", text
IsTodoLine(line) ==
    \E w \in {RunLength(line, 0, WhitespaceChars)} :
        /\ Slice(line, w, w + 3) = <<"-", " ", "[">>
        /\ At(line, w + 3) \in {" ", "x", "X"}
        /\ Slice(line, w + 4, w + 6) = <<"]", " ">>

TodoIndent(line) == Slice(line, 0, RunLength(line, 0, WhitespaceChars))

TodoMarker(line) ==
    Slice(line, RunLength(line, 0, WhitespaceChars),
          RunLength(line, 0, WhitespaceChars) + 5)

\* C21: a block that starts at a line made of whitespace, "- [", one of " ",
\* "x", "X", "] " and text is a todo_item whose first content entry is the
\* leading whitespace and whose marker entry is "- [c]" with the checked
\* character c as written
C21_TodoEitherCase ==
    \A j \in 1..Len(state) :
        IsTodoLine(ValueLines[StartLine(state, j) + 1]) =>
            /\ state[j].type = "todo_item"
            /\ state[j].content[1] = Str(TodoIndent(ValueLines[StartLine(state, j) + 1]))
            /\ state[j].content[2] = Str(TodoMarker(ValueLines[StartLine(state, j) + 1]))

\* the same for the lines whose checked character is " " or "x"
TodoLowerCaseAsClaimed ==
    \A j \in 1..Len(state) :
        /\ IsTodoLine(ValueLines[StartLine(state, j) + 1])
        /\ ~Includes(TodoMarker(ValueLines[StartLine(state, j) + 1]), "X")
        => /\ state[j].type = "todo_item"
           /\ state[j].content[1] = Str(TodoIndent(ValueLines[StartLine(state, j) + 1]))
           /\ state[j].content[2] = Str(TodoMarker(ValueLines[StartLine(state, j) + 1]))

----------------------------------------------------------------------------
(* Tags                                                                    *)

\* the string a tag node holds between its two "#"
TagContent == LastToken.content[2].text

\* C22: a turn of parseInline makes a tag node only of "#" followed by
\* content that is not empty and holds no whitespace; "#" followed by
\* whitespace or by nothing is appended to the plain-text run
C22_TagWithoutWhitespace ==
    /\ scan.by = "tag" =>
          /\ At(scan.string, scan.at) = "#"
          /\ TagContent # <<>>
          /\ \A i \in 1..Len(TagContent) : ~WHITESPACE(TagContent[i])
    /\ /\ scan.by # "none"
       /\ At(scan.string, scan.at) = "#"
       /\ \/ scan.at + 1 >= Len(scan.string)
          \/ WHITESPACE(At(scan.string, scan.at + 1))
       => TextTurn

\* the rest of C22 without its ban of whitespace: the content of a tag is
\* not empty and starts and ends with a character that is not whitespace
TagContentRequired ==
    /\ scan.by = "tag" =>
          /\ At(scan.string, scan.at) = "#"
          /\ TagContent # <<>>
          /\ ~WHITESPACE(TagContent[1])
          /\ ~WHITESPACE(TagContent[Len(TagContent)])
    /\ /\ scan.by # "none"
       /\ At(scan.string, scan.at) = "#"
       /\ \/ scan.at + 1 >= Len(scan.string)
          \/ WHITESPACE(At(scan.string, scan.at + 1))
       => TextTurn

----------------------------------------------------------------------------
(* Line accounting                                                         *)

RECURSIVE SpanSum(_)
SpanSum(blocks) ==
    IF blocks = <<>> THEN 0
    ELSE lengthOr1(Head(blocks)) + SpanSum(Tail(blocks))

\* the number of newline characters of a string
RECURSIVE Newlines(_)
Newlines(string) ==
    IF string = <<>> THEN 0
    ELSE (IF Head(string) = "\n" THEN 1 ELSE 0) + Newlines(Tail(string))

\* C23: the line spans of the blocks parseBlock yields sum to the number of
\* lines, the serialized content of a block holds one newline less than its
\* span, and a block that starts at a blank line is a paragraph of span 1
\* with content [""]
C23_SpansCountLines ==
    /\ SpanSum(state) = Len(ValueLines)
    /\ \A j \in 1..Len(state) :
          /\ Newlines(serializeState(state[j].content, FALSE))
                 = lengthOr1(state[j]) - 1
          /\ TrimIsEmpty(ValueLines[StartLine(state, j) + 1]) =>
                 state[j] = Block("paragraph", <<Str(<<>>)>>, 1)

\* a code block of two lines followed by a blank line
C23_Reached ==
    /\ ValueLines = <<Fence, Fence, <<>>>>
    /\ Len(state) = 2
    /\ state[1].type = "code_block" /\ state[1].length = 2
    /\ state[2] = Block("paragraph", <<Str(<<>>)>>, 1)

----------------------------------------------------------------------------
(* List bullets                                                            *)

\* the plan of RichStylingPlugin holds the bullet over node i of the tree
HasBullet(i) ==
    \E k \in 1..Len(decorations) :
        decorations[k] = Range("mark", decorationBullet, Tree[i].from, Tree[i].to)

\* node i is the marker of an item of a bullet list
IsBulletMark(i) ==
    /\ Tree[i].name = "ListMark"
    /\ Tree[Tree[i].parent].name = "ListItem"
    /\ Tree[Tree[Tree[i].parent].parent].name = "BulletList"

CaretAwayFrom(i) ==
    cursor.from # Tree[i].from /\ cursor.from # Tree[i].from + 1

\* C24: without WYSIWYG the marker of an item of a bullet list has the
\* bullet decoration if and only if cursor.from is neither the start of the
\* marker nor one past it; the marker of an item of an ordered list never
\* has it
C24_BulletUnlessCaretAtMark ==
    ~wysiwygMode =>
        \A i \in WithName(Tree, {"ListMark"}) :
            HasBullet(i) <=> (IsBulletMark(i) /\ CaretAwayFrom(i))

\* the same for the markers that do not lie in a block quote
BulletOutsideQuote ==
    ~wysiwygMode =>
        \A i \in WithName(Tree, {"ListMark"}) :
            (\A a \in Ancestors(Tree, i) : Tree[a].name # "Blockquote") =>
                (HasBullet(i) <=> (IsBulletMark(i) /\ CaretAwayFrom(i)))

----------------------------------------------------------------------------
(* Termination                                                             *)

\* the recognisers that parse what they enclose
RichTypes ==
    {"strong", "em", "strikethrough", "underline", "mark", "reference"}

\* the length of the substring the last turn of parseInline gave to the
\* recursive call: what lies between the opening and the closing marker
RecursedLength ==
    scan.index - scan.at - Len(LastToken.content[1].text)
        - Len(LastToken.content[Len(LastToken.content)].text)

\* the last turn of each loop moved its index forward, and parseInline
\* recursed on a shorter string
LoopsAdvance ==
    /\ scan.by # "none" => scan.index >= scan.at + 1
    /\ scan.by \in RichTypes =>
          /\ RecursedLength < Len(scan.string)
          /\ Len(serializeState(LastToken.content, FALSE))
                 = scan.index - scan.at
    /\ blockGen.at # -1 => blockGen.index >= blockGen.at + 1
    /\ loop.at # -1 => loop.lineIndex >= loop.at + 1

\* every loop has ended: no turn is left to take
LoopsEnded ==
    /\ scan.index >= Len(scan.string)
    /\ blockGen.index >= Len(blockGen.lines)
    /\ loop.block = Undefined

\* C25: parseInline, parseBlock and getNewState terminate: every turn of
\* parseInline moves the index at least one character forward and its
\* recursive calls are on shorter strings, every turn of parseBlock and of
\* getNewState moves the line index at least one line forward, and every
\* loop comes to its end
C25_LoopsTerminate == [](LoopsAdvance) /\ <>[](LoopsEnded)

\* getNewState ended after a turn through the changed zone and a turn that
\* reused an old block
C25_Reached ==
    /\ loop.block = Undefined
    /\ Len(loop.newState) >= 2
    /\ \E j \in 1..Len(loop.newState) : loop.newState[j].ref # 0
    /\ \E j \in 1..Len(loop.newState) : loop.newState[j].ref = 0

\* the loop of getNewState, run turn by turn, ends with what getNewState
\* returns
LoopIsGetNewState ==
    loop.block = Undefined /\ loop.at # -1 =>
        loop.newState = getNewState(loop.c.state, loop.c.from, loop.c.to,
                                    Join(loop.c.lines, <<"\n">>))


----------------------------------------------------------------------------
(* The children of the Editor's element (SpecView)                         *)

\* an assignment of another array has just run
Assigned == view.sets > 0 /\ view._state # view.prevState

\* child i shows next[i]: the element that rendered the block before when
\* the block was in the previous state, an element of its content otherwise
ChildShows(i) ==
    LET node == view._state[i]
        child == view.children[i]
    IN /\ view.shows[child] = node
       /\ includes(view.prevState, node) =>
            child = Item(view.prevElements, arrayIndexOf(view.prevState, node))

\* C26: after editor.state = next the element has exactly next.length
\* children, and child i is the element that rendered next[i] before when
\* that block object was in the previous state, and otherwise an element
\* with the content of toDOM(next[i])
C26_ChildrenShowState ==
    Assigned =>
        /\ Len(view.children) = Len(view._state)
        /\ \A i \in 1..Len(view.children) : ChildShows(i)


\* with no block object of the previous state in the next one, the children
\* show the next state
NothingShared ==
    \A i \in 1..Len(view._state) : ~includes(view.prevState, view._state[i])

FreshStateShown ==
    Assigned /\ NothingShared =>
        /\ Len(view.children) = Len(view._state)
        /\ \A i \in 1..Len(view.children) : ChildShows(i)


----------------------------------------------------------------------------
(* SimpleEditor with the wasm parser (SpecSimple)                          *)

\* what a generator can yield for a text, run to its end
WasmParses(input) ==
    {IF r.kind = "array" THEN r.blocks ELSE <<fallbackParagraph(input)>> :
        r \in parse_markdown(input)}

\* C27: with the wasm parser selected and no parse pending, the rendered
\* blocks are those parsed from the text getValue() returns: no update
\* asked for during another one is lost
C27_RenderedIsValue ==
    (simple.currentParser = "wasm" /\ ~simple.isUpdating /\ simple.updates > 0)
        => simple.rendered \in WasmParses(simple.originalMarkdown)

\* an update that finds none in flight is rendered from the text of its call
UpdateAloneRendered ==
    [][(~simple.isUpdating /\ simple'.isUpdating)
        => wasm'.input = simple'.originalMarkdown]_vars

----------------------------------------------------------------------------
(* parseMarkdownWasm and its consumer (SpecWasm)                           *)

\* loading or parsing threw, or the parser gave no array
Failed(w) == ~w.loaded \/ w.result.kind # "array"

\* C28: parseMarkdownWasm never raises to its consumer; when loading or
\* parsing throws, or the parser returns something that is not an array,
\* it yields exactly the one paragraph of the input and finishes, and
\* otherwise exactly the parser's blocks in order
C28_FallbackOrBlocks ==
    /\ wasm.pc # "raised"
    /\ wasm.pc = "done" =>
          wasm.yielded = IF Failed(wasm) THEN <<fallbackParagraph(wasm.input)>>
                         ELSE wasm.result.blocks
    /\ wasm.pc \in {"yield", "fallen"} =>
          /\ wasm.yielded # <<>>
          /\ IF Failed(wasm) THEN wasm.yielded = <<fallbackParagraph(wasm.input)>>
             ELSE wasm.yielded = SubSeq(wasm.result.blocks, 1, Len(wasm.yielded))

\* a generator ended with the fallback of a two-line input after loading failed
C28_Reached ==
    /\ wasm.pc = "done" /\ ~wasm.loaded
    /\ wasm.yielded = <<fallbackParagraph(<<"a", "\n", "b">>)>>


----------------------------------------------------------------------------
(* The table command (SpecCmd)                                             *)

\* the start of the line after the line of the caret, in the document the
\* command started from
NextLineStart == lineAt(cmd.origin.doc, cmd.origin.from).to + 1

\* C29: for every document and caret, a caret on the last line of a document
\* with no trailing line break included, the table command inserts its
\* template at the start of the line after the caret's line, a position
\* within the document, and sets the caret inside the new document
C29_TableInsertedInside ==
    cmd.runs = <<"table">> =>
        /\ cmd.returned = "true"
        /\ NextLineStart \in 0..Len(cmd.origin.doc)
        /\ cmd.doc = Slice(cmd.origin.doc, 0, NextLineStart) \o tableTemplate
                        \o SliceFrom(cmd.origin.doc, NextLineStart)
        /\ cmd.anchor = cmd.head /\ cmd.head \in 0..Len(cmd.doc)

\* with a line break after the caret's line the template goes after it
TableAfterLineBreak ==
    (cmd.runs = <<"table">>
        /\ lineAt(cmd.origin.doc, cmd.origin.from).to < Len(cmd.origin.doc)) =>
        /\ cmd.returned = "true"
        /\ cmd.doc = Slice(cmd.origin.doc, 0, NextLineStart) \o tableTemplate
                        \o SliceFrom(cmd.origin.doc, NextLineStart)
        /\ cmd.anchor = cmd.head /\ cmd.head = NextLineStart + 2

----------------------------------------------------------------------------
(* The format commands, run twice (SpecCmd)                                *)

\* the selection the commands started from: not empty, inside one line and
\* of word characters only
WordSelected ==
    /\ cmd.origin.from < cmd.origin.to
    /\ \A i \in cmd.origin.from..(cmd.origin.to - 1) :
          isWordCharacter(At(cmd.origin.doc, i))

\* the document with the selection between two markers of the format
Wrapped(type) ==
    Slice(cmd.origin.doc, 0, cmd.origin.from) \o MARKERS(type)
        \o Slice(cmd.origin.doc, cmd.origin.from, cmd.origin.to)
        \o MARKERS(type) \o SliceFrom(cmd.origin.doc, cmd.origin.to)

IsFormat(name) == name \in {"bold", "italic", "code", "strikethrough"}

\* C30: for every line and every non-empty selection of word characters in
\* it, the first execution of a format command wraps exactly the selection
\* in the marker, and a second execution of the same command restores the
\* document text and the selection range
C30_ToggleTwiceRestores ==
    (WordSelected /\ cmd.runs # <<>> /\ IsFormat(cmd.runs[1])) =>
        /\ Len(cmd.runs) = 1 => cmd.doc = Wrapped(cmd.runs[1])
        /\ (Len(cmd.runs) = 2 /\ cmd.runs[2] = cmd.runs[1]) =>
              /\ cmd.doc = cmd.origin.doc
              /\ selFrom(cmd) = cmd.origin.from
              /\ selTo(cmd) = cmd.origin.to

\* a line that holds none of the marker characters
PlainLine ==
    LET line == docLineAt(cmd.origin.doc, cmd.origin.from)
    IN \A i \in 1..Len(line.text) : line.text[i] \notin {"*", "~", Backtick}

\* on a line without marker characters the two executions do as said
PlainToggleTwiceRestores ==
    (WordSelected /\ PlainLine /\ cmd.runs # <<>> /\ IsFormat(cmd.runs[1])) =>
        /\ Len(cmd.runs) = 1 => cmd.doc = Wrapped(cmd.runs[1])
        /\ (Len(cmd.runs) = 2 /\ cmd.runs[2] = cmd.runs[1]) =>
              /\ cmd.doc = cmd.origin.doc
              /\ selFrom(cmd) = cmd.origin.from
              /\ selTo(cmd) = cmd.origin.to

====
